---------------------------- MODULE Spec2Model ----------------------------
(***************************************************************************)
(* geoipdb: resolution of the ASN and organisation name of an IP address   *)
(* (Handler.LookupAsn), the TTL cache behind it (cache.go) and the         *)
(* overrides collection.                                                   *)
(*                                                                         *)
(* Go strings are modelled as sequences of one-character strings, so that  *)
(* the parsing the code does (TrimSpace, SplitN, the two regular           *)
(* expressions, the dotted-decimal address syntax) is computed and not     *)
(* assumed.  The empty Go string is the empty sequence << >>.  A Go error  *)
(* value is a TLA+ string naming it; "nil" is the nil error.               *)
(***************************************************************************)
EXTENDS Naturals, Sequences, FiniteSets, TLC

VARIABLES
    cache,      \* Handler.cache: [ip |-> IP to cacheEntry, asn |-> ASN to IP set]
    overrides,  \* Handler.overrides: [isNil |-> BOOLEAN, docs |-> _id to name]
    now,        \* time.Now(), in hours since the Handler was created
    ret,        \* the last call made: its operation, arguments, results, the
                \* Handler lookup methods it invoked, in order, whether it
                \* called cache.lookupByIP (probed) and what that returned
                \* (found, expired), whether it returned a nil
                \* collection (isNil), the cache a purge or store found
                \* (prev), whether the record an OverridesRemove names
                \* existed and whether an OverridesAdd changed a name
    frames,     \* for each goroutine calling the Handler concurrently, the
                \* call it is in: method, arguments, position (pc), results
    mutex,      \* the state of each sync.RWMutex: of Handler.cache (0) and of
                \* the copy each goroutine's method call has as its receiver
    fatal       \* the Go runtime has stopped the process with a fatal error

vars == <<cache, overrides, now, ret, frames, mutex, fatal>>

----------------------------------------------------------------------------
(* Bounds of the model. *)

\* Each goroutine makes at most MaxCalls calls.
MaxCalls == 2

\* The goroutines that share the Handler.
Goroutines == {1, 2}

\* The clock stops advancing at MaxTime hours.
MaxTime == 25

----------------------------------------------------------------------------
(* Strings. *)

Digits == {"0", "1", "2", "3", "4", "5", "6", "7", "8", "9"}

\* unicode.IsSpace, over the characters the model uses.
IsSpace(c) == c \in {" ", "\t", "\n"}

RECURSIVE TrimLeft(_)
TrimLeft(s) ==
    IF s # << >> /\ IsSpace(Head(s)) THEN TrimLeft(Tail(s)) ELSE s

RECURSIVE TrimRight(_)
TrimRight(s) ==
    IF s # << >> /\ IsSpace(s[Len(s)])
    THEN TrimRight(SubSeq(s, 1, Len(s) - 1))
    ELSE s

\* strings.TrimSpace(s)
TrimSpace(s) == TrimRight(TrimLeft(s))

\* The positions of character c in s.
IndexesOf(s, c) == {i \in 1..Len(s) : s[i] = c}

Min(S) == CHOOSE x \in S : \A y \in S : x <= y
Max(S) == CHOOSE x \in S : \A y \in S : x >= y

\* strings.SplitN(s, sep, 2) for a one-character separator: at most two
\* parts, cut at the first separator.
SplitN2(s, sep) ==
    IF IndexesOf(s, sep) = {}
    THEN <<s>>
    ELSE LET i == Min(IndexesOf(s, sep))
         IN  <<SubSeq(s, 1, i - 1), SubSeq(s, i + 1, Len(s))>>

\* strings.Split(s, sep) for a one-character separator.
RECURSIVE Split(_, _)
Split(s, sep) ==
    IF IndexesOf(s, sep) = {}
    THEN <<s>>
    ELSE LET i == Min(IndexesOf(s, sep))
         IN  <<SubSeq(s, 1, i - 1)>> \o Split(SubSeq(s, i + 1, Len(s)), sep)

\* reASN.MatchString(s), reASN = "^AS[[:digit:]]+$"
reASN(s) ==
    /\ Len(s) >= 3
    /\ s[1] = "A"
    /\ s[2] = "S"
    /\ \A i \in 3..Len(s) : s[i] \in Digits

\* reDNSFilter.ReplaceAllString(s, ""), reDNSFilter = ".*\|" (POSIX,
\* leftmost-longest): everything up to and including the last pipe goes.
reDNSFilter(s) ==
    IF IndexesOf(s, "|") = {}
    THEN s
    ELSE SubSeq(s, Max(IndexesOf(s, "|")) + 1, Len(s))

----------------------------------------------------------------------------
(* Maps (Go's map[K]V): functions with a finite domain. *)

EmptyMap == << >>

MapPut(m, k, v) == [x \in (DOMAIN m) \cup {k} |-> IF x = k THEN v ELSE m[x]]

MapRestrict(m, keys) == [x \in keys |-> m[x]]

\* The orders in which a range loop may visit the elements of S.
Orders(S) ==
    {s \in [1..Cardinality(S) -> S] : \A i, j \in DOMAIN s : s[i] = s[j] => i = j}

----------------------------------------------------------------------------
(* cache.go *)

\* cacheTTL = time.Hour * 24, in hours.
cacheTTL == 24

cacheEntry(asn, descr, due) == [asn |-> asn, descr |-> descr, due |-> due]

newCache == [ip |-> EmptyMap, asn |-> EmptyMap]

\* A buggy store: the IP is not removed from the bucket it was in.
store_keepsOldBucket(c, ip, asn, descr, t) ==
    LET ipMap == MapPut(c.ip, ip, cacheEntry(asn, descr, t + cacheTTL))
        bucket == IF asn \in DOMAIN c.asn THEN c.asn[asn] ELSE {}
    IN  [ip |-> ipMap, asn |-> MapPut(c.asn, asn, bucket \cup {ip})]

\* A buggy store: the buckets the IP leaves empty are not deleted.
store_keepsEmptyBucket(c, ip, asn, descr, t) ==
    LET purged == [a \in DOMAIN c.asn |-> c.asn[a] \ {ip}]
        ipMap == MapPut(c.ip, ip, cacheEntry(asn, descr, t + cacheTTL))
        bucket == IF asn \in DOMAIN purged THEN purged[asn] ELSE {}
    IN  [ip |-> ipMap, asn |-> MapPut(purged, asn, bucket \cup {ip})]

\* A buggy store: the bucket of the ASN is made anew at each store.
store_newBucket(c, ip, asn, descr, t) ==
    LET purged == [a \in DOMAIN c.asn |-> c.asn[a] \ {ip}]
        pruned == MapRestrict(purged, {a \in DOMAIN purged : Cardinality(purged[a]) >= 1})
        ipMap == MapPut(c.ip, ip, cacheEntry(asn, descr, t + cacheTTL))
    IN  [ip |-> ipMap, asn |-> MapPut(pruned, asn, {ip})]

\* A buggy store: an IP that has an entry keeps the due date of that entry.
store_keepsDue(c, ip, asn, descr, t) ==
    LET purged == [a \in DOMAIN c.asn |-> c.asn[a] \ {ip}]
        pruned == MapRestrict(purged, {a \in DOMAIN purged : Cardinality(purged[a]) >= 1})
        due == IF ip \in DOMAIN c.ip THEN c.ip[ip].due ELSE t + cacheTTL
        ipMap == MapPut(c.ip, ip, cacheEntry(asn, descr, due))
        bucket == IF asn \in DOMAIN pruned THEN pruned[asn] ELSE {}
    IN  [ip |-> ipMap, asn |-> MapPut(pruned, asn, bucket \cup {ip})]

\* cache.store(ip, asn, descr) at time t.
store(c, ip, asn, descr, t) ==
    LET \* Purge ASN map of given ip
        purged == [a \in DOMAIN c.asn |-> c.asn[a] \ {ip}]
        \* Purge ASN map of empty entries
        pruned == MapRestrict(purged, {a \in DOMAIN purged : Cardinality(purged[a]) >= 1})
        \* Update IP map
        ipMap == MapPut(c.ip, ip, cacheEntry(asn, descr, t + cacheTTL))
        \* Update ASN map
        bucket == IF asn \in DOMAIN pruned THEN pruned[asn] ELSE {}
    IN  [ip |-> ipMap, asn |-> MapPut(pruned, asn, bucket \cup {ip})]

\* A buggy comparison: an entry is expired on its due date already.
After_orEqual(t, due) == t >= due

\* time.Now().After(due)
After(t, due) == t > due

\* cache.lookupByIP(ip) at time t: <<asn, descr, expired, found>>.
lookupByIP(c, ip, t) ==
    IF ip \notin DOMAIN c.ip
    THEN << << >>, << >>, FALSE, FALSE >>
    ELSE <<c.ip[ip].asn, c.ip[ip].descr, After(t, c.ip[ip].due), TRUE>>

\* A Go map value: nil, or a map with the keys elems.
NilMap == [isNil |-> TRUE, elems |-> {}]

\* make(map[string]interface{})
makeMap == [isNil |-> FALSE, elems |-> {}]

\* answer, ok := c.asn[asn]: the zero value of a map, nil, when asn is not a
\* key.
asnIndex(c, asn) ==
    IF asn \in DOMAIN c.asn
    THEN [ok |-> TRUE, answer |-> [isNil |-> FALSE, elems |-> c.asn[asn]]]
    ELSE [ok |-> FALSE, answer |-> NilMap]

\* A buggy lookupByASN: what the ASN map holds is returned as it is.
lookupByASNMap_noMake(c, asn) == [answer |-> asnIndex(c, asn).answer, cache |-> c]

\* cache.lookupByASN(asn): the map it returns and the cache it leaves.
lookupByASNMap(c, asn) ==
    LET a == asnIndex(c, asn)
    IN  IF ~a.ok \/ a.answer.isNil
        THEN [answer |-> makeMap, cache |-> c]
        ELSE [answer |-> a.answer, cache |-> c]

\* cache.lookupByASN(asn): the set of the IPs of the bucket.
lookupByASN(c, asn) == lookupByASNMap(c, asn).answer.elems

\* A buggy purgeASN: the bucket is deleted, the entries of its IPs are not.
purgeASN_bucketOnly(c, asn) ==
    [ip |-> c.ip, asn |-> MapRestrict(c.asn, (DOMAIN c.asn) \ {asn})]

\* A buggy purgeASN: the entries of the IPs are deleted, the bucket is not.
purgeASN_forwardOnly(c, asn) ==
    [ip |-> MapRestrict(c.ip, {i \in DOMAIN c.ip : c.ip[i].asn # asn}), asn |-> c.asn]

\* cache.purgeASN(asn)
purgeASN(c, asn) ==
    [ip  |-> MapRestrict(c.ip, {i \in DOMAIN c.ip : c.ip[i].asn # asn}),
     asn |-> MapRestrict(c.asn, (DOMAIN c.asn) \ {asn})]

\* A buggy purgeAll: the ASN map is emptied, the IP map is not.
purgeAll_reverseOnly(c) == [ip |-> c.ip, asn |-> EmptyMap]

\* cache.purgeAll()
purgeAll(c) == [ip |-> EmptyMap, asn |-> EmptyMap]

\* cache.asnList(): the keys of the ASN map, in any order.
asnList(c) == Orders(DOMAIN c.asn)


----------------------------------------------------------------------------
(* iputils: ParseIP and IsLocalIP. *)

DigitVal(c) ==
    CASE c = "0" -> 0 [] c = "1" -> 1 [] c = "2" -> 2 [] c = "3" -> 3 [] c = "4" -> 4
      [] c = "5" -> 5 [] c = "6" -> 6 [] c = "7" -> 7 [] c = "8" -> 8 [] c = "9" -> 9

RECURSIVE Atoi(_)
Atoi(s) == IF s = << >> THEN 0 ELSE 10 * Atoi(SubSeq(s, 1, Len(s) - 1)) + DigitVal(s[Len(s)])

\* One decimal field of a dotted IPv4 literal.
IsOctetText(s) ==
    /\ Len(s) \in 1..3
    /\ \A i \in 1..Len(s) : s[i] \in Digits
    /\ Atoi(s) <= 255

IsIPv4Text(s) ==
    LET parts == Split(s, ".")
    IN  Len(parts) = 4 /\ \A i \in 1..4 : IsOctetText(parts[i])

HexDigits == Digits \cup {"a", "b", "c", "d", "e", "f"}

\* An IPv6 literal: groups of up to four hexadecimal digits separated by
\* colons, eight of them, or fewer around one "::".
IsIPv6Text(s) ==
    LET groups == Split(s, ":")
        elided == \E i \in 1..(Len(s) - 1) : s[i] = ":" /\ s[i + 1] = ":"
    IN  /\ IndexesOf(s, ":") # {}
        /\ \A i \in 1..Len(s) : s[i] \in HexDigits \cup {":"}
        /\ \A i \in 1..Len(groups) : Len(groups[i]) <= 4
        /\ IF elided
           THEN Len(groups) <= 9
           ELSE Len(groups) = 8 /\ \A i \in 1..8 : groups[i] # << >>

\* iputils.ParseIP(text): (ip_, is4).  ok is "ip_ is not nil"; octets are
\* the four bytes of an IPv4 address.
ParseIP(s) ==
    IF IsIPv4Text(s)
    THEN LET parts == Split(s, ".")
         IN  [ok |-> TRUE, is4 |-> TRUE, octets |-> [i \in 1..4 |-> Atoi(parts[i])],
              groups |-> << >>]
    ELSE IF IsIPv6Text(s)
    THEN [ok |-> TRUE, is4 |-> FALSE, octets |-> << >>, groups |-> Split(s, ":")]
    ELSE [ok |-> FALSE, is4 |-> FALSE, octets |-> << >>, groups |-> << >>]

\* The value of a hexadecimal digit.
HexVal(c) ==
    CASE c = "a" -> 10 [] c = "b" -> 11 [] c = "c" -> 12 [] c = "d" -> 13
      [] c = "e" -> 14 [] c = "f" -> 15 [] OTHER -> DigitVal(c)

\* The value of a group of an IPv6 literal; an elided group is zero.
RECURSIVE Atoh(_)
Atoh(s) == IF s = << >> THEN 0 ELSE 16 * Atoh(SubSeq(s, 1, Len(s) - 1)) + HexVal(s[Len(s)])

\* iputils.IsLocalIP(ip_) of an IPv6 address, given the groups of its text:
\* the address is in one of the IANA IPv6 special-purpose ranges that are
\* not globally routable.  The groups before a "::" are the leading groups
\* of the address; the last group is its last.
IsLocalIPv6(groups) ==
    LET g1 == Atoh(groups[1])
        g2 == Atoh(groups[2])
        last == Atoh(groups[Len(groups)])
        restZero == \A i \in 1..(Len(groups) - 1) : Atoh(groups[i]) = 0
    IN  \/ restZero /\ last \in {0, 1}                  \* ::/128, ::1/128
        \/ g1 \in 64512..65023                          \* fc00::/7
        \/ g1 \in 65152..65215                          \* fe80::/10
        \/ g1 = 8193 /\ g2 = 3512                       \* 2001:db8::/32

\* iputils.IsLocalIP(ip_) of an IPv4 address, given its four bytes: the
\* address is in one of the IANA IPv4 special-purpose ranges that are not
\* globally routable.
IsLocalIPv4(o) ==
        \/ o[1] = 0                                       \* 0.0.0.0/8
        \/ o[1] = 10                                      \* 10.0.0.0/8
        \/ o[1] = 100 /\ o[2] \in 64..127                 \* 100.64.0.0/10
        \/ o[1] = 127                                     \* 127.0.0.0/8
        \/ o[1] = 169 /\ o[2] = 254                       \* 169.254.0.0/16
        \/ o[1] = 172 /\ o[2] \in 16..31                  \* 172.16.0.0/12
        \/ o[1] = 192 /\ o[2] = 0 /\ o[3] \in {0, 2}      \* 192.0.0.0/24, 192.0.2.0/24
        \/ o[1] = 192 /\ o[2] = 88 /\ o[3] = 99           \* 192.88.99.0/24
        \/ o[1] = 192 /\ o[2] = 168                       \* 192.168.0.0/16
        \/ o[1] = 198 /\ o[2] \in 18..19                  \* 198.18.0.0/15
        \/ o[1] = 198 /\ o[2] = 51 /\ o[3] = 100          \* 198.51.100.0/24
        \/ o[1] = 203 /\ o[2] = 0 /\ o[3] = 113           \* 203.0.113.0/24
        \/ o[1] >= 240                                    \* 240.0.0.0/4, broadcast

\* iputils.IsLocalIP(ip_), ip_ not nil.
IsLocalIP(p) == IF p.is4 THEN IsLocalIPv4(p.octets) ELSE IsLocalIPv6(p.groups)

----------------------------------------------------------------------------
(* Errors. *)

nil == "nil"
MalformedIPError == "malformed IP address"
IPv6NotSupportedError == "IPv6 not yet supported"
PrivateIPError == "private IP address"
UnknownAsnError == "unknown ASN for ip"
OverridesNilCollectionError == "nil overrides collection"
OverridesAsnNotFoundError == "ASN not found"
OverridesMalformedAsnError == "malformed ASN"

----------------------------------------------------------------------------
(* geoipdb.go: the lookup methods of Handler.  Each of them starts with    *)
(* ip_, is4 := iputils.ParseIP(ip): ParseIP is a function of ip alone, so  *)
(* the parameter p is ParseIP(ip), computed once by the caller.  What the  *)
(* outside world answers to one call is the parameter env:                 *)
(*   env.geoip  the name h.geoip.GetName(ip) returns,                      *)
(*   env.http   [status, body] of GET http://ipinfo.io/<ip>/org,           *)
(*   env.dns    [fail, answer] of the TXT query, answer a sequence of      *)
(*              [isTXT, txt] resource records,                             *)
(*   env.mgo    whether the query to the overrides collection fails.       *)
(***************************************************************************)

\* One invocation of a Handler lookup method, as recorded in ret.calls.
Call(method, arg, asn, descr, err) ==
    [method |-> method, arg |-> arg, asn |-> asn, descr |-> descr, err |-> err]

\* Handler.LibGeoipLookup(ip): <<asn, descr>>
LibGeoipLookup(ip, p, name) ==
    LET tmp == TrimSpace(name)
        answer == SplitN2(tmp, " ")
    IN  IF ~p.is4 THEN << << >>, << >> >>
        ELSE IF IsLocalIP(p) THEN << << >>, << >> >>
        ELSE IF tmp = << >> THEN << << >>, << >> >>
        ELSE IF Len(answer) < 2 THEN <<answer[1], << >> >>
        ELSE <<answer[1], answer[2]>>

\* Handler.IpInfoLookup(ip): <<asn, descr, err>>
IpInfoLookup(ip, p, http) ==
    LET asnData == TrimSpace(http.body)
        answer == SplitN2(asnData, " ")
    IN  IF ~p.ok THEN << << >>, << >>, MalformedIPError>>
        ELSE IF ~p.is4 THEN << << >>, << >>, IPv6NotSupportedError>>
        ELSE IF IsLocalIP(p) THEN << << >>, << >>, PrivateIPError>>
        ELSE IF http.status = "getfail" THEN << << >>, << >>, "failed to GET">>
        ELSE IF http.status = "readfail"
        THEN << << >>, << >>, "failed to read ipinfo.io response">>
        ELSE IF asnData = << >> THEN << << >>, << >>, "GET returned an empty answer">>
        ELSE IF ~reASN(answer[1]) THEN << << >>, << >>, "ipinfo.io lookup failed">>
        ELSE IF Len(answer) < 2 THEN <<answer[1], << >>, nil>>
        ELSE <<answer[1], answer[2], nil>>

\* The first TXT record of a DNS answer section, 0 if there is none.
FirstTXT(answer) ==
    IF \E i \in 1..Len(answer) : answer[i].isTXT
    THEN Min({i \in 1..Len(answer) : answer[i].isTXT})
    ELSE 0

\* cymruClient.lookup(asn): <<descr, err>>
cymruLookup(asn, dns) ==
    IF asn = << >> THEN << << >>, "empty asn parameter">>
    ELSE IF dns.fail THEN << << >>, "failed to query dns">>
    ELSE IF FirstTXT(dns.answer) # 0
    THEN <<TrimSpace(reDNSFilter(dns.answer[FirstTXT(dns.answer)].txt)), nil>>
    ELSE << << >>, "not yet implemented">>

\* Handler.CymruDnsLookup(asn): <<descr, err>>
CymruDnsLookup(asn, dns) == cymruLookup(asn, dns)

----------------------------------------------------------------------------
(* The overrides collection (mgo), keyed by _id = ASN. *)

\* Handler.OverridesLookup(asn): <<descr, err>>
OverridesLookup(ov, asn, mgoFails) ==
    IF ov.isNil THEN << << >>, OverridesNilCollectionError>>
    ELSE IF mgoFails THEN << << >>, "cannot lookup override">>
    ELSE IF asn \notin DOMAIN ov.docs THEN << << >>, OverridesAsnNotFoundError>>
    ELSE <<ov.docs[asn], nil>>

\* A buggy getOverridenDescr: the override is looked up and then ignored.
getOverridenDescr_ignored(ov, asn, fallback, mgoFails) == fallback

\* Handler.getOverridenDescr(asn, fallback)
getOverridenDescr(ov, asn, fallback, mgoFails) ==
    LET r == OverridesLookup(ov, asn, mgoFails)
    IN  IF r[2] # nil THEN fallback ELSE r[1]

----------------------------------------------------------------------------
(* Handler.lookupAsnUncached and Handler.LookupAsn. *)

\* What a lookup returns, with the lookup methods it invoked and the
\* description it had computed from the sources before the override.
Result(asn, descr, err, calls, computed) ==
    [asn |-> asn, descr |-> descr, err |-> err, calls |-> calls, computed |-> computed]

\* return "", "", err
Failure(err, calls) == Result(<< >>, << >>, err, calls, << >>)

\* A buggy return: an error of the overrides collection other than the
\* expected ones is returned to the caller.
Overridden_failsClosed(ov, asn, fallback, calls, env) ==
    LET r == OverridesLookup(ov, asn, env.mgo)
        calls2 == Append(calls, Call("OverridesLookup", asn, << >>, r[1], r[2]))
    IN  IF r[2] \notin {nil, OverridesAsnNotFoundError, OverridesNilCollectionError}
        THEN Failure(r[2], calls2)
        ELSE Result(asn, getOverridenDescr(ov, asn, fallback, env.mgo), nil, calls2, fallback)

\* return asn, h.getOverridenDescr(asn, fallback), nil
Overridden(ov, asn, fallback, calls, env) ==
    LET r == OverridesLookup(ov, asn, env.mgo)
    IN  Result(asn, getOverridenDescr(ov, asn, fallback, env.mgo), nil,
               Append(calls, Call("OverridesLookup", asn, << >>, r[1], r[2])), fallback)

\* A buggy test: a complete libgeoip answer is not taken.
giComplete_never(asnGi, asnDescr) == FALSE

\* libgeoip returned an ASN and description.
giComplete(asnGi, asnDescr) == asnGi # << >> /\ asnDescr # << >>

\* A buggy test: a complete ipinfo.io answer is not taken.
ipComplete_never(asnIp, asnDescr, errIp) == FALSE

\* ipinfo.io returned an ASN and description.
ipComplete(asnIp, asnDescr, errIp) ==
    errIp = nil /\ asnIp # << >> /\ asnDescr # << >>

\* A buggy choice: the ASN of ipinfo.io is preferred to the one of libgeoip.
pickAsn_remoteFirst(asnGi, asnIp, errIp) ==
    IF errIp = nil /\ asnIp # << >> THEN [found |-> TRUE, asn |-> asnIp]
    ELSE IF asnGi # << >> THEN [found |-> TRUE, asn |-> asnGi]
    ELSE [found |-> FALSE, asn |-> << >>]

\* A buggy choice: the ASN of ipinfo.io is never used.
pickAsn_giOnly(asnGi, asnIp, errIp) ==
    IF asnGi # << >> THEN [found |-> TRUE, asn |-> asnGi]
    ELSE [found |-> FALSE, asn |-> << >>]

\* The ASN kept when no source gave a description: found is FALSE where the
\* code gives up.
pickAsn(asnGi, asnIp, errIp) ==
    IF asnGi # << >> THEN [found |-> TRUE, asn |-> asnGi]
    ELSE IF errIp = nil /\ asnIp # << >> THEN [found |-> TRUE, asn |-> asnIp]
    ELSE [found |-> FALSE, asn |-> << >>]

\* A buggy lookupAsnUncached: when no source gives an ASN, the error of
\* ipinfo.io is returned to the caller.
lookupAsnUncached_surfacesRemote(ov, ip, p, env) ==
    LET gi == LibGeoipLookup(ip, p, env.geoip)
        c1 == <<Call("LibGeoipLookup", ip, gi[1], gi[2], nil)>>
        ii == IpInfoLookup(ip, p, env.http)
        c2 == Append(c1, Call("IpInfoLookup", ip, ii[1], ii[2], ii[3]))
        pick == pickAsn(gi[1], ii[1], ii[3])
        cy == CymruDnsLookup(pick.asn, env.dns)
        c3 == Append(c2, Call("CymruDnsLookup", pick.asn, << >>, cy[1], cy[2]))
    IN  IF ~p.ok THEN Failure(MalformedIPError, << >>)
        ELSE IF ~p.is4 THEN Failure(IPv6NotSupportedError, << >>)
        ELSE IF IsLocalIP(p) THEN Failure(PrivateIPError, << >>)
        ELSE IF giComplete(gi[1], gi[2]) THEN Overridden(ov, gi[1], gi[2], c1, env)
        ELSE IF ipComplete(ii[1], ii[2], ii[3]) THEN Overridden(ov, ii[1], ii[2], c2, env)
        ELSE IF ~pick.found
        THEN Failure(IF ii[3] # nil THEN ii[3] ELSE UnknownAsnError, c2)
        ELSE IF cy[2] # nil THEN Overridden(ov, pick.asn, << >>, c3, env)
        ELSE Overridden(ov, pick.asn, cy[1], c3, env)

\* A buggy lookupAsnUncached: a failure of cymru gives up the resolution.
lookupAsnUncached_cymruFatal(ov, ip, p, env) ==
    LET gi == LibGeoipLookup(ip, p, env.geoip)
        c1 == <<Call("LibGeoipLookup", ip, gi[1], gi[2], nil)>>
        ii == IpInfoLookup(ip, p, env.http)
        c2 == Append(c1, Call("IpInfoLookup", ip, ii[1], ii[2], ii[3]))
        pick == pickAsn(gi[1], ii[1], ii[3])
        cy == CymruDnsLookup(pick.asn, env.dns)
        c3 == Append(c2, Call("CymruDnsLookup", pick.asn, << >>, cy[1], cy[2]))
    IN  IF ~p.ok THEN Failure(MalformedIPError, << >>)
        ELSE IF ~p.is4 THEN Failure(IPv6NotSupportedError, << >>)
        ELSE IF IsLocalIP(p) THEN Failure(PrivateIPError, << >>)
        ELSE IF giComplete(gi[1], gi[2]) THEN Overridden(ov, gi[1], gi[2], c1, env)
        ELSE IF ipComplete(ii[1], ii[2], ii[3]) THEN Overridden(ov, ii[1], ii[2], c2, env)
        ELSE IF ~pick.found THEN Failure(UnknownAsnError, c2)
        ELSE IF cy[2] # nil THEN Failure(UnknownAsnError, c3)
        ELSE Overridden(ov, pick.asn, cy[1], c3, env)

\* A buggy lookupAsnUncached: ipinfo.io is asked a second time when its first
\* answer is not complete.
lookupAsnUncached_retriesRemote(ov, ip, p, env) ==
    LET gi == LibGeoipLookup(ip, p, env.geoip)
        c1 == <<Call("LibGeoipLookup", ip, gi[1], gi[2], nil)>>
        ii == IpInfoLookup(ip, p, env.http)
        c2 == IF ipComplete(ii[1], ii[2], ii[3])
              THEN Append(c1, Call("IpInfoLookup", ip, ii[1], ii[2], ii[3]))
              ELSE c1 \o <<Call("IpInfoLookup", ip, ii[1], ii[2], ii[3]),
                           Call("IpInfoLookup", ip, ii[1], ii[2], ii[3])>>
        pick == pickAsn(gi[1], ii[1], ii[3])
        cy == CymruDnsLookup(pick.asn, env.dns)
        c3 == Append(c2, Call("CymruDnsLookup", pick.asn, << >>, cy[1], cy[2]))
    IN  IF ~p.ok THEN Failure(MalformedIPError, << >>)
        ELSE IF ~p.is4 THEN Failure(IPv6NotSupportedError, << >>)
        ELSE IF IsLocalIP(p) THEN Failure(PrivateIPError, << >>)
        \* Try libgeoip
        ELSE IF giComplete(gi[1], gi[2]) THEN Overridden(ov, gi[1], gi[2], c1, env)
        \* Try ipinfo.io
        ELSE IF ipComplete(ii[1], ii[2], ii[3]) THEN Overridden(ov, ii[1], ii[2], c2, env)
        \* Cannot find an ASN. Give up.
        ELSE IF ~pick.found THEN Failure(UnknownAsnError, c2)
        \* We found an ASN, but no description for it.
        ELSE IF cy[2] # nil THEN Overridden(ov, pick.asn, << >>, c3, env)
        ELSE Overridden(ov, pick.asn, cy[1], c3, env)

\* Handler.lookupAsnUncached(ip)
lookupAsnUncached(ov, ip, p, env) ==
    LET gi == LibGeoipLookup(ip, p, env.geoip)
        c1 == <<Call("LibGeoipLookup", ip, gi[1], gi[2], nil)>>
        ii == IpInfoLookup(ip, p, env.http)
        c2 == Append(c1, Call("IpInfoLookup", ip, ii[1], ii[2], ii[3]))
        pick == pickAsn(gi[1], ii[1], ii[3])
        cy == CymruDnsLookup(pick.asn, env.dns)
        c3 == Append(c2, Call("CymruDnsLookup", pick.asn, << >>, cy[1], cy[2]))
    IN  IF ~p.ok THEN Failure(MalformedIPError, << >>)
        ELSE IF ~p.is4 THEN Failure(IPv6NotSupportedError, << >>)
        ELSE IF IsLocalIP(p) THEN Failure(PrivateIPError, << >>)
        \* Try libgeoip
        ELSE IF giComplete(gi[1], gi[2]) THEN Overridden(ov, gi[1], gi[2], c1, env)
        \* Try ipinfo.io
        ELSE IF ipComplete(ii[1], ii[2], ii[3]) THEN Overridden(ov, ii[1], ii[2], c2, env)
        \* Cannot find an ASN. Give up.
        ELSE IF ~pick.found THEN Failure(UnknownAsnError, c2)
        \* We found an ASN, but no description for it.
        ELSE IF cy[2] # nil THEN Overridden(ov, pick.asn, << >>, c3, env)
        ELSE Overridden(ov, pick.asn, cy[1], c3, env)

\* What LookupAsn returns (res), the cache it leaves, and whether it called
\* cache.lookupByIP.
Outcome(res, c, probed) == [res |-> res, cache |-> c, probed |-> probed]

\* A buggy LookupAsn: the result is cached whether or not the lookup failed.
LookupAsn_alwaysStores(c, ov, ip, p, env, t) ==
    LET hit == lookupByIP(c, ip, t)
        r == lookupAsnUncached(ov, ip, p, env)
    IN  IF ~p.ok THEN Outcome(Failure(MalformedIPError, << >>), c, FALSE)
        ELSE IF ~p.is4 THEN Outcome(Failure(IPv6NotSupportedError, << >>), c, FALSE)
        ELSE IF IsLocalIP(p) THEN Outcome(Failure(PrivateIPError, << >>), c, FALSE)
        ELSE IF hit[4] /\ ~hit[3]
        THEN Outcome(Result(hit[1], hit[2], nil, << >>, << >>), c, TRUE)
        ELSE Outcome(r, store(c, ip, r.asn, r.descr, t), TRUE)

\* A buggy LookupAsn: the result of the uncached lookup is not cached.
LookupAsn_neverStores(c, ov, ip, p, env, t) ==
    LET hit == lookupByIP(c, ip, t)
    IN  IF hit[4] /\ ~hit[3]
        THEN Outcome(Result(hit[1], hit[2], nil, << >>, << >>), c, TRUE)
        ELSE Outcome(lookupAsnUncached(ov, ip, p, env), c, TRUE)

\* A buggy LookupAsn: the cache is tried before the address is checked.
LookupAsn_cacheFirst(c, ov, ip, p, env, t) ==
    LET hit == lookupByIP(c, ip, t)
        r == lookupAsnUncached(ov, ip, p, env)
    IN  IF hit[4] /\ ~hit[3]
        THEN Outcome(Result(hit[1], hit[2], nil, << >>, << >>), c, TRUE)
        ELSE IF r.err = nil
        THEN Outcome(r, store(c, ip, r.asn, r.descr, t), TRUE)
        ELSE Outcome(r, c, TRUE)

\* A buggy LookupAsn: an address that is not IPv4 is left to the uncached
\* lookup to reject.
LookupAsn_lateIPv6(c, ov, ip, p, env, t) ==
    LET hit == lookupByIP(c, ip, t)
        r == lookupAsnUncached(ov, ip, p, env)
    IN  IF ~p.ok THEN Outcome(Failure(MalformedIPError, << >>), c, FALSE)
        ELSE IF p.is4 /\ IsLocalIP(p) THEN Outcome(Failure(PrivateIPError, << >>), c, FALSE)
        ELSE IF hit[4] /\ ~hit[3]
        THEN Outcome(Result(hit[1], hit[2], nil, << >>, << >>), c, TRUE)
        ELSE IF r.err = nil
        THEN Outcome(r, store(c, ip, r.asn, r.descr, t), TRUE)
        ELSE Outcome(r, c, TRUE)

\* A buggy LookupAsn: a local address is rejected whatever its family.
LookupAsn_localFirst(c, ov, ip, p, env, t) ==
    LET hit == lookupByIP(c, ip, t)
        r == lookupAsnUncached(ov, ip, p, env)
    IN  IF ~p.ok THEN Outcome(Failure(MalformedIPError, << >>), c, FALSE)
        ELSE IF IsLocalIP(p) THEN Outcome(Failure(PrivateIPError, << >>), c, FALSE)
        ELSE IF ~p.is4 THEN Outcome(Failure(IPv6NotSupportedError, << >>), c, FALSE)
        ELSE IF hit[4] /\ ~hit[3]
        THEN Outcome(Result(hit[1], hit[2], nil, << >>, << >>), c, TRUE)
        ELSE IF r.err = nil
        THEN Outcome(r, store(c, ip, r.asn, r.descr, t), TRUE)
        ELSE Outcome(r, c, TRUE)

\* A buggy LookupAsn: an entry that is found is returned, expired or not.
LookupAsn_servesExpired(c, ov, ip, p, env, t) ==
    LET hit == lookupByIP(c, ip, t)
        r == lookupAsnUncached(ov, ip, p, env)
    IN  IF ~p.ok THEN Outcome(Failure(MalformedIPError, << >>), c, FALSE)
        ELSE IF ~p.is4 THEN Outcome(Failure(IPv6NotSupportedError, << >>), c, FALSE)
        ELSE IF IsLocalIP(p) THEN Outcome(Failure(PrivateIPError, << >>), c, FALSE)
        ELSE IF hit[4]
        THEN Outcome(Result(hit[1], hit[2], nil, << >>, << >>), c, TRUE)
        ELSE IF r.err = nil
        THEN Outcome(r, store(c, ip, r.asn, r.descr, t), TRUE)
        ELSE Outcome(r, c, TRUE)

\* Handler.LookupAsn(ip) at time t: the result and the cache it leaves.
LookupAsn(c, ov, ip, p, env, t) ==
    LET hit == lookupByIP(c, ip, t)
        r == lookupAsnUncached(ov, ip, p, env)
    IN  IF ~p.ok THEN Outcome(Failure(MalformedIPError, << >>), c, FALSE)
        ELSE IF ~p.is4 THEN Outcome(Failure(IPv6NotSupportedError, << >>), c, FALSE)
        ELSE IF IsLocalIP(p) THEN Outcome(Failure(PrivateIPError, << >>), c, FALSE)
        \* Try cache
        ELSE IF hit[4] /\ ~hit[3]
        THEN Outcome(Result(hit[1], hit[2], nil, << >>, << >>), c, TRUE)
        \* Try uncached lookup, update cache
        ELSE IF r.err = nil
        THEN Outcome(r, store(c, ip, r.asn, r.descr, t), TRUE)
        ELSE Outcome(r, c, TRUE)

----------------------------------------------------------------------------
(* overrides: OverridesAdd, OverridesRemove, OverridesList.  Each returns  *)
(* the error and the documents the collection then holds.                  *)

\* Handler.OverridesSet(asn, descr) of overrides.go, the first draft of the
\* override methods: with a collection it is not yet implemented.
OverridesSet(ov, asn, descr) ==
    IF ov.isNil THEN [err |-> OverridesNilCollectionError, ov |-> ov]
    ELSE [err |-> "not yet implemented", ov |-> ov]

\* A buggy OverridesAdd: the collection is used without the nil test.
OverridesAdd_nilUnchecked(ov, asn, descr, mgoFails) ==
    IF mgoFails THEN [err |-> "cannot set override", ov |-> ov]
    ELSE [err |-> nil, ov |-> [ov EXCEPT !.docs = MapPut(ov.docs, asn, descr)]]

\* A buggy OverridesAdd: the name is set only when the record is inserted.
OverridesAdd_keepsFirst(ov, asn, descr, mgoFails) ==
    IF ov.isNil THEN [err |-> OverridesNilCollectionError, ov |-> ov]
    ELSE IF mgoFails THEN [err |-> "cannot set override", ov |-> ov]
    ELSE IF asn \in DOMAIN ov.docs THEN [err |-> nil, ov |-> ov]
    ELSE [err |-> nil, ov |-> [ov EXCEPT !.docs = MapPut(ov.docs, asn, descr)]]

\* Handler.OverridesAdd(asn, descr)
OverridesAdd(ov, asn, descr, mgoFails) ==
    IF ov.isNil THEN [err |-> OverridesNilCollectionError, ov |-> ov]
    ELSE IF mgoFails THEN [err |-> "cannot set override", ov |-> ov]
    ELSE [err |-> nil, ov |-> [ov EXCEPT !.docs = MapPut(ov.docs, asn, descr)]]

\* A buggy OverridesRemove: mgo.ErrNotFound is returned to the caller.
OverridesRemove_notFoundIsError(ov, asn, mgoFails) ==
    IF ov.isNil THEN [err |-> OverridesNilCollectionError, ov |-> ov]
    ELSE IF mgoFails THEN [err |-> "cannot remove override", ov |-> ov]
    ELSE IF asn \notin DOMAIN ov.docs THEN [err |-> OverridesAsnNotFoundError, ov |-> ov]
    ELSE [err |-> nil,
          ov |-> [ov EXCEPT !.docs = MapRestrict(ov.docs, (DOMAIN ov.docs) \ {asn})]]

\* Handler.OverridesRemove(asn)
OverridesRemove(ov, asn, mgoFails) ==
    IF ov.isNil THEN [err |-> OverridesNilCollectionError, ov |-> ov]
    ELSE IF mgoFails THEN [err |-> "cannot remove override", ov |-> ov]
    ELSE IF asn \notin DOMAIN ov.docs THEN [err |-> nil, ov |-> ov]
    ELSE [err |-> nil,
          ov |-> [ov EXCEPT !.docs = MapRestrict(ov.docs, (DOMAIN ov.docs) \ {asn})]]

\* Handler.OverridesList(): the error and the lists it may return, each
\* element an AsnOverride <<Asn, Name>>.
OverridesList(ov, mgoFails) ==
    IF ov.isNil THEN [err |-> OverridesNilCollectionError, lists |-> {<< >>}]
    ELSE IF mgoFails THEN [err |-> "cannot retrieve overrides", lists |-> {<< >>}]
    ELSE [err |-> nil,
          lists |-> {[i \in DOMAIN o |-> <<o[i], ov.docs[o[i]]>>] : o \in Orders(DOMAIN ov.docs)}]

\* make([]string, n): a slice that is not nil, whatever n.
makeSlice(n) == [isNil |-> FALSE, len |-> n]

\* Handler.LookupIp(asn): the slice made for the answer, the lists it may
\* hold on return, and the cache the call leaves.
LookupIpAnswer(c, asn) ==
    LET r == lookupByASNMap(c, asn)
    IN  [answer |-> makeSlice(Cardinality(r.answer.elems)),
         lists |-> Orders(r.answer.elems),
         cache |-> r.cache]

\* Handler.LookupIp(asn): the lists it may return.
LookupIp(c, asn) == LookupIpAnswer(c, asn).lists

----------------------------------------------------------------------------
(* The inputs of the model. *)

asnGoogle == <<"A", "S", "1">>
asnLevel3 == <<"A", "S", "3">>

\* "Google Inc.", "Level 3", the description Cymru gives, an override, "l33t".
descrGoogle == <<"G", " ", "I">>
descrLevel3 == <<"L">>
descrCymru  == <<"C">>
overridenDescr == <<"T">>
descrLeet == <<"l">>

\* "8.8.8.8", "1.1.1.1", "10.0.0.1", "::1", "ns.c", "192.168.0.1",
\* "192.168.0", "2404::64"
ip8 == <<"8", ".", "8", ".", "8", ".", "8">>
ip1 == <<"1", ".", "1", ".", "1", ".", "1">>
ipPrivate == <<"1", "0", ".", "0", ".", "0", ".", "1">>
ipV6 == <<":", ":", "1">>
ipHost == <<"n", "s", ".", "c">>

ip192 == <<"1", "9", "2", ".", "1", "6", "8", ".", "0", ".", "1">>
ipShort == <<"1", "9", "2", ".", "1", "6", "8", ".", "0">>
ipV6Public == <<"2", "4", "0", "4", ":", ":", "6", "4">>

IpTexts == {ip8, ip1, ipPrivate, ipV6, ipHost, ip192, ipShort, ipV6Public}

\* "qwerty", an identifier that is not an ASN.
asnMalformed == <<"q">>

\* What h.geoip.GetName may return: nothing, a bare ASN, an ASN and a name.
GeoipNames == { << >>, asnGoogle, asnGoogle \o <<" ">> \o descrGoogle }

\* What ipinfo.io may answer: no answer, a bare ASN, an ASN and a name, an
\* error in prose.
HttpAnswers ==
    { [status |-> "getfail", body |-> << >>],
      [status |-> "ok", body |-> asnLevel3 \o <<"\n">>],
      [status |-> "ok", body |-> asnLevel3 \o <<" ">> \o descrLevel3 \o <<"\n">>],
      [status |-> "ok", body |-> <<"R", "a", "t", "e", " ", "l", "i", "m", "i", "t">>] }

\* What the DNS may answer: no answer, or a TXT record "1 | U | C" after
\* another record.
DnsAnswers ==
    { [fail |-> TRUE, answer |-> << >>],
      [fail |-> FALSE,
       answer |-> <<[isTXT |-> FALSE, txt |-> << >>],
                    [isTXT |-> TRUE,
                     txt |-> <<"1", " ", "|", " ", "U", " ", "|", " ">> \o descrCymru]>>] }

Envs == [geoip : GeoipNames, http : HttpAnswers, dns : DnsAnswers, mgo : BOOLEAN]

\* What the world may answer about 1.1.1.1: libgeoip does not know it, and
\* ipinfo.io does not answer or answers with an ASN and a name.
Envs1 ==
    [geoip : {<< >>},
     http : {h \in HttpAnswers : h.status = "getfail" \/ Len(h.body) > Len(asnLevel3) + 1},
     dns : {d \in DnsAnswers : d.fail},
     mgo : BOOLEAN]

\* The world is not asked about an address LookupAsn rejects.
NoEnv == [geoip |-> << >>, http |-> [status |-> "getfail", body |-> << >>],
          dns |-> [fail |-> TRUE, answer |-> << >>], mgo |-> FALSE]

EnvsFor(ip, p) ==
    IF ~(p.ok /\ p.is4 /\ ~IsLocalIP(p)) THEN {NoEnv}
    ELSE IF ip = ip1 THEN Envs1
    ELSE Envs

\* The ASNs and names given to the Overrides methods.
OverrideAsns == {asnGoogle, asnLevel3}
OverrideNames == {overridenDescr}

\* The arguments given to the methods of the cache.
CacheIps == {ip8, ip1, ipPrivate}
CacheAsns == {asnGoogle, asnLevel3}
CacheDescrs == {descrGoogle, << >>}

\* By how much the clock advances between two calls: to the due date of an
\* entry stored before, or one hour past it.
TickSteps == {cacheTTL, cacheTTL + 1}

----------------------------------------------------------------------------
(* The state machine of a Handler: one action per public method. *)

Ret0 ==
    [op |-> "NewHandler", arg |-> << >>, asn |-> << >>, descr |-> << >>, err |-> nil,
     calls |-> << >>, computed |-> << >>, found |-> FALSE, expired |-> FALSE, ips |-> {}, list |-> << >>,
     probed |-> FALSE, isNil |-> FALSE, prev |-> newCache, existed |-> FALSE,
     replaced |-> FALSE]

\* A goroutine that has not called the Handler yet.
Frame0 ==
    [pc |-> "idle", op |-> "none", arg |-> << >>, asn |-> << >>, descr |-> << >>,
     err |-> nil, missed |-> FALSE, last |-> FALSE, left |-> MaxCalls,
     ips |-> [attached |-> FALSE, elems |-> {}], snap |-> {}, list |-> << >>,
     calls |-> << >>, stores |-> 0]

\* NewHandler(overrides, timeout), overrides nil or an empty collection.
Init ==
    /\ cache = newCache
    /\ overrides \in {[isNil |-> b, docs |-> EmptyMap] : b \in BOOLEAN}
    /\ now = 0
    /\ ret = Ret0
    /\ frames = [t \in Goroutines |-> Frame0]
    /\ mutex = [m \in {0} \cup Goroutines |-> [w |-> FALSE, r |-> 0]]
    /\ fatal = FALSE

\* Handler.LookupAsn(ip), p the address ip parses to: one step for each
\* outcome some answer env of the world gives (\E env \in envs, taken over the
\* distinct outcomes).
DoLookupAsn(ip, p, envs) ==
    \E r \in {LookupAsn(cache, overrides, ip, p, env, now) : env \in envs} :
        /\ cache' = r.cache
        /\ ret' = [Ret0 EXCEPT !.op = "LookupAsn", !.arg = ip, !.asn = r.res.asn,
                               !.descr = r.res.descr, !.err = r.res.err,
                               !.calls = r.res.calls, !.computed = r.res.computed,
                               !.probed = r.probed,
                               !.found = r.probed /\ lookupByIP(cache, ip, now)[4],
                               !.expired = r.probed /\ lookupByIP(cache, ip, now)[3]]
        /\ UNCHANGED <<overrides, now, frames, mutex, fatal>>

\* Handler.AsnCachePurge()
DoAsnCachePurge ==
    /\ cache' = purgeAll(cache)
    /\ ret' = [Ret0 EXCEPT !.op = "AsnCachePurge", !.prev = cache]
    /\ UNCHANGED <<overrides, now, frames, mutex, fatal>>

DoLookupIp(asn) ==
    LET r == LookupIpAnswer(cache, asn)
    IN  /\ \E l \in r.lists :
              ret' = [Ret0 EXCEPT !.op = "LookupIp", !.arg = asn, !.list = l,
                                  !.isNil = r.answer.isNil]
        /\ cache' = r.cache
        /\ UNCHANGED <<overrides, now, frames, mutex, fatal>>

\* Handler.AsnCacheList()
DoAsnCacheList ==
    /\ \E l \in asnList(cache) : ret' = [Ret0 EXCEPT !.op = "AsnCacheList", !.list = l]
    /\ UNCHANGED <<cache, overrides, now, frames, mutex, fatal>>

DoOverridesLookup(asn, mgoFails) ==
    LET r == OverridesLookup(overrides, asn, mgoFails)
    IN  /\ ret' = [Ret0 EXCEPT !.op = "OverridesLookup", !.arg = asn,
                               !.descr = r[1], !.err = r[2]]
        /\ UNCHANGED <<cache, overrides, now, frames, mutex, fatal>>

DoOverridesAdd(asn, descr, mgoFails) ==
    LET r == OverridesAdd(overrides, asn, descr, mgoFails)
    IN  /\ overrides' = r.ov
        /\ ret' = [Ret0 EXCEPT !.op = "OverridesAdd", !.arg = asn, !.descr = descr,
                               !.err = r.err,
                               !.replaced = /\ r.err = nil
                                            /\ asn \in DOMAIN overrides.docs
                                            /\ overrides.docs[asn] # descr]
        /\ UNCHANGED <<cache, now, frames, mutex, fatal>>

DoOverridesRemove(asn, mgoFails) ==
    LET r == OverridesRemove(overrides, asn, mgoFails)
    IN  /\ overrides' = r.ov
        /\ ret' = [Ret0 EXCEPT !.op = "OverridesRemove", !.arg = asn, !.err = r.err,
                               !.existed = asn \in DOMAIN overrides.docs]
        /\ UNCHANGED <<cache, now, frames, mutex, fatal>>

DoOverridesList(mgoFails) ==
    LET r == OverridesList(overrides, mgoFails)
    IN  /\ \E l \in r.lists :
              ret' = [Ret0 EXCEPT !.op = "OverridesList", !.err = r.err, !.list = l]
        /\ UNCHANGED <<cache, overrides, now, frames, mutex, fatal>>

DoOverridesSet(asn, descr) ==
    LET r == OverridesSet(overrides, asn, descr)
    IN  /\ overrides' = r.ov
        /\ ret' = [Ret0 EXCEPT !.op = "OverridesSet", !.arg = asn, !.descr = descr,
                               !.err = r.err]
        /\ UNCHANGED <<cache, now, frames, mutex, fatal>>

\* Time passes between two calls.
Tick(d) ==
    /\ now + d <= MaxTime
    /\ now' = now + d
    /\ ret' = [Ret0 EXCEPT !.op = "Tick"]
    /\ UNCHANGED <<cache, overrides, frames, mutex, fatal>>

\* The calls that resolve addresses and those that change what they return.
Next ==
    \/ \E ip \in IpTexts : DoLookupAsn(ip, ParseIP(ip), EnvsFor(ip, ParseIP(ip)))
    \/ DoAsnCachePurge
    \/ \E asn \in OverrideAsns, d \in OverrideNames, f \in BOOLEAN : DoOverridesAdd(asn, d, f)
    \/ \E asn \in OverrideAsns, f \in BOOLEAN : DoOverridesRemove(asn, f)
    \/ \E d \in TickSteps : Tick(d)

Spec == Init /\ [][Next]_vars

\* The whole public interface of a Handler: Next and the calls that only read.
ApiNext ==
    \/ Next
    \/ \E asn \in CacheAsns : DoLookupIp(asn)
    \/ DoAsnCacheList
    \/ \E asn \in OverrideAsns, f \in BOOLEAN : DoOverridesLookup(asn, f)
    \/ \E f \in BOOLEAN : DoOverridesList(f)

ApiSpec == Init /\ [][ApiNext]_vars

\* A Handler whose local database holds records that do not start with an
\* ASN and whose callers name overrides by identifiers that are not ASNs.
AnyEnvs ==
    [geoip : GeoipNames \cup {asnMalformed, asnMalformed \o <<" ">> \o descrGoogle},
     http : HttpAnswers, dns : DnsAnswers, mgo : BOOLEAN]
AnyOverrideAsns == OverrideAsns \cup {asnMalformed}

AnyNext ==
    \/ DoLookupAsn(ip8, ParseIP(ip8), AnyEnvs)
    \/ DoAsnCachePurge
    \/ \E asn \in AnyOverrideAsns, d \in OverrideNames : DoOverridesSet(asn, d)
    \/ \E asn \in AnyOverrideAsns, d \in OverrideNames, f \in BOOLEAN :
          DoOverridesAdd(asn, d, f)
    \/ \E asn \in AnyOverrideAsns, f \in BOOLEAN : DoOverridesRemove(asn, f)

AnySpec == Init /\ [][AnyNext]_vars

\* The override methods alone, the callers giving an ASN one name and then
\* another.
OverridesNext ==
    \/ \E asn \in OverrideAsns, d \in OverrideNames \cup {descrLeet}, f \in BOOLEAN :
          DoOverridesAdd(asn, d, f)
    \/ \E asn \in OverrideAsns, f \in BOOLEAN : DoOverridesRemove(asn, f)
    \/ \E asn \in OverrideAsns, f \in BOOLEAN : DoOverridesLookup(asn, f)
    \/ \E f \in BOOLEAN : DoOverridesList(f)

OverridesSpec == Init /\ [][OverridesNext]_vars

----------------------------------------------------------------------------
(* The state machine of the cache alone: one action per method of cache,   *)
(* called one at a time with any arguments.                                *)

CacheStore(ip, asn, descr) ==
    /\ cache' = store(cache, ip, asn, descr, now)
    /\ ret' = [Ret0 EXCEPT !.op = "store", !.arg = ip, !.asn = asn, !.descr = descr,
                           !.prev = cache]
    /\ UNCHANGED <<overrides, now, frames, mutex, fatal>>

CacheLookupByIP(ip) ==
    LET r == lookupByIP(cache, ip, now)
    IN  /\ ret' = [Ret0 EXCEPT !.op = "lookupByIP", !.arg = ip, !.asn = r[1],
                               !.descr = r[2], !.expired = r[3], !.found = r[4]]
        /\ UNCHANGED <<cache, overrides, now, frames, mutex, fatal>>

CacheLookupByASN(asn) ==
    LET r == lookupByASNMap(cache, asn)
    IN  /\ ret' = [Ret0 EXCEPT !.op = "lookupByASN", !.arg = asn,
                               !.ips = r.answer.elems, !.isNil = r.answer.isNil]
        /\ cache' = r.cache
        /\ UNCHANGED <<overrides, now, frames, mutex, fatal>>

CachePurgeASN(asn) ==
    /\ cache' = purgeASN(cache, asn)
    /\ ret' = [Ret0 EXCEPT !.op = "purgeASN", !.arg = asn, !.prev = cache]
    /\ UNCHANGED <<overrides, now, frames, mutex, fatal>>

CachePurgeAll ==
    /\ cache' = purgeAll(cache)
    /\ ret' = [Ret0 EXCEPT !.op = "purgeAll", !.prev = cache]
    /\ UNCHANGED <<overrides, now, frames, mutex, fatal>>

CacheAsnList ==
    /\ \E l \in asnList(cache) : ret' = [Ret0 EXCEPT !.op = "asnList", !.list = l]
    /\ UNCHANGED <<cache, overrides, now, frames, mutex, fatal>>

CacheNext ==
    \/ \E ip \in CacheIps, asn \in CacheAsns, d \in CacheDescrs : CacheStore(ip, asn, d)
    \/ \E ip \in CacheIps : CacheLookupByIP(ip)
    \/ \E asn \in CacheAsns : CacheLookupByASN(asn)
    \/ \E asn \in CacheAsns : CachePurgeASN(asn)
    \/ CachePurgeAll
    \/ CacheAsnList
    \/ \E d \in TickSteps : Tick(d)

CacheSpec == Init /\ [][CacheNext]_vars

----------------------------------------------------------------------------
(* Goroutines that call one Handler concurrently.  A call is a sequence of  *)
(* steps: the Lock or RLock of the receiver's mutex, each statement of the  *)
(* method that reads or writes a map, the deferred Unlock with the last of  *)
(* them.  The methods of cache and of Handler have value receivers          *)
(* (func (c cache) store, func (h Handler) LookupAsn): each call works on a *)
(* copy of the struct, whose maps are those of the Handler and whose mutex  *)
(* is a copy of the Handler's.                                              *)

\* The mutex c.Lock() locks in a method call of goroutine t if the receiver
\* were a pointer: the mutex of Handler.cache.
receiver_pointer(t) == 0

\* The mutex c.Lock() locks in a method call of goroutine t: that of the
\* receiver c, the copy made for the call.
receiver(t) == t

\* c.Lock() of goroutine t, which then moves to next: the receiver's mutex
\* is that of Handler.cache, or its copy, and is locked once no goroutine
\* holds it.
Lock(t, next) ==
    /\ ~fatal
    /\ mutex[0] = [w |-> FALSE, r |-> 0]
    /\ mutex' = [mutex EXCEPT ![receiver(t)] = [w |-> TRUE, r |-> 0]]
    /\ frames' = [t2 \in Goroutines |->
                    IF t2 = t THEN [frames[t] EXCEPT !.pc = next, !.last = TRUE]
                    ELSE [frames[t2] EXCEPT !.last = FALSE]]
    /\ UNCHANGED <<cache, overrides, now, ret, fatal>>

\* c.RLock() of goroutine t, which then moves to next.
RLock(t, next) ==
    /\ ~fatal
    /\ ~mutex[0].w
    /\ mutex' = [mutex EXCEPT ![receiver(t)] = [w |-> FALSE, r |-> mutex[0].r + 1]]
    /\ frames' = [frames EXCEPT ![t].pc = next]
    /\ UNCHANGED <<cache, overrides, now, ret, fatal>>

\* The positions between a Lock and its Unlock, and between an RLock and its
\* RUnlock.
InWrite(t) ==
    frames[t].pc \in {"store.purgeIp", "store.pruneEmpty", "store.forward", "store.bucket",
                      "purgeAll.ip", "purgeAll.asn"}
InRead(t) == frames[t].pc \in {"lookupByIP.read", "lookupByASN.read"}

\* The map lookupByASN returned to goroutine t, ips in LookupIp: the bucket of
\* the ASN while the ASN map holds it (attached), or a map the ASN map holds
\* no more, or never held.
IpsOf(t) ==
    IF frames[t].ips.attached THEN cache.asn[frames[t].arg] ELSE frames[t].ips.elems

\* The frames fr once the ASN map has become asnMap: a bucket that delete has
\* removed from the ASN map lives on, as it was, where a goroutine holds it.
Detached(fr, asnMap) ==
    [t \in Goroutines |->
        IF fr[t].ips.attached /\ fr[t].arg \notin DOMAIN asnMap
        THEN [fr[t] EXCEPT !.ips = [attached |-> FALSE, elems |-> cache.asn[fr[t].arg]]]
        ELSE fr[t]]

\* What the sources answer to the goroutines: libgeoip knows the address, or
\* its ASN alone, or ipinfo.io knows the address under another ASN, or
\* neither does.
ConcEnvs ==
    {e \in Envs :
        /\ ~e.mgo /\ e.dns.fail
        /\ \/ e.geoip = asnGoogle \o <<" ">> \o descrGoogle /\ e.http.status = "getfail"
           \/ e.geoip = asnGoogle /\ e.http.status = "getfail"
           \/ e.geoip = << >> /\ Len(e.http.body) > Len(asnLevel3) + 1
           \/ e.geoip = << >> /\ e.http.status = "getfail"}

\* Handler.LookupAsn(ip) begins; the address is a public IPv4 address.
LookupAsnCall(t, ip) ==
    /\ ~fatal
    /\ frames[t].pc = "idle"
    /\ frames[t].left > 0
    /\ frames' = [frames EXCEPT ![t] = [Frame0 EXCEPT !.pc = "lookupByIP.RLock",
                                                     !.op = "LookupAsn", !.arg = ip,
                                                     !.left = frames[t].left - 1]]
    /\ UNCHANGED <<cache, overrides, now, ret, mutex, fatal>>

LookupByIPRLock(t) ==
    /\ frames[t].pc = "lookupByIP.RLock"
    /\ RLock(t, "lookupByIP.read")

\* entry, ok := c.ip[ip], the deferred RUnlock, and the test of LookupAsn on
\* what lookupByIP returned.
LookupByIPRead(t) ==
    LET r == lookupByIP(cache, frames[t].arg, now)
    IN  /\ ~fatal
        /\ frames[t].pc = "lookupByIP.read"
        /\ mutex' = [mutex EXCEPT ![receiver(t)].r = @ - 1]
        /\ frames' = IF r[4] /\ ~r[3]
                     THEN [frames EXCEPT ![t].pc = "idle", ![t].asn = r[1],
                                         ![t].descr = r[2]]
                     ELSE [frames EXCEPT ![t].pc = "lookupAsnUncached", ![t].missed = TRUE]
        /\ UNCHANGED <<cache, overrides, now, ret, fatal>>

\* asn, descr, err = h.lookupAsnUncached(ip)
LookupAsnResolve(t) ==
    /\ ~fatal
    /\ frames[t].pc = "lookupAsnUncached"
    /\ \E env \in ConcEnvs :
          LET res == lookupAsnUncached(overrides, frames[t].arg, ParseIP(frames[t].arg), env)
          IN  frames' = [frames EXCEPT ![t].pc = IF res.err # nil THEN "idle" ELSE "store.Lock",
                                       ![t].asn = res.asn, ![t].descr = res.descr,
                                       ![t].err = res.err, ![t].calls = res.calls]
    /\ UNCHANGED <<cache, overrides, now, ret, mutex, fatal>>

StoreLock(t) ==
    /\ frames[t].pc = "store.Lock"
    /\ Lock(t, "store.purgeIp")

\* for _, ips := range c.asn { delete(ips, ip) }
StorePurgeIp(t) ==
    /\ ~fatal
    /\ frames[t].pc = "store.purgeIp"
    /\ cache' = [cache EXCEPT
                   !.asn = [a \in DOMAIN cache.asn |-> cache.asn[a] \ {frames[t].arg}]]
    /\ frames' = [frames EXCEPT ![t].pc = "store.pruneEmpty"]
    /\ UNCHANGED <<overrides, now, ret, mutex, fatal>>

\* for asn, ips := range c.asn { if len(ips) < 1 { delete(c.asn, asn) } }
StorePruneEmpty(t) ==
    /\ ~fatal
    /\ frames[t].pc = "store.pruneEmpty"
    /\ cache' = [cache EXCEPT
                   !.asn = MapRestrict(cache.asn, {a \in DOMAIN cache.asn :
                                                     Cardinality(cache.asn[a]) >= 1})]
    /\ frames' = Detached([frames EXCEPT ![t].pc = "store.forward"], cache'.asn)
    /\ UNCHANGED <<overrides, now, ret, mutex, fatal>>

\* c.ip[ip] = cacheEntry{...}
StoreForward(t) ==
    /\ ~fatal
    /\ frames[t].pc = "store.forward"
    /\ cache' = [cache EXCEPT
                   !.ip = MapPut(cache.ip, frames[t].arg,
                                 cacheEntry(frames[t].asn, frames[t].descr, now + cacheTTL))]
    /\ frames' = [frames EXCEPT ![t].pc = "store.bucket", ![t].stores = @ + 1]
    /\ UNCHANGED <<overrides, now, ret, mutex, fatal>>

\* c.asn[asn][ip] = nil in the bucket of asn, made if there is none; the
\* deferred Unlock; the return of LookupAsn.
StoreBucket(t) ==
    LET asn == frames[t].asn
        bucket == IF asn \in DOMAIN cache.asn THEN cache.asn[asn] ELSE {}
    IN  /\ ~fatal
        /\ frames[t].pc = "store.bucket"
        /\ cache' = [cache EXCEPT
                       !.asn = MapPut(cache.asn, asn, bucket \cup {frames[t].arg})]
        /\ mutex' = [mutex EXCEPT ![receiver(t)].w = FALSE]
        /\ frames' = [frames EXCEPT ![t].pc = "idle"]
        /\ UNCHANGED <<overrides, now, ret, fatal>>

\* Handler.AsnCachePurge() begins.
AsnCachePurgeCall(t) ==
    /\ ~fatal
    /\ frames[t].pc = "idle"
    /\ frames[t].left > 0
    /\ frames' = [frames EXCEPT ![t] = [Frame0 EXCEPT !.pc = "purgeAll.Lock",
                                                     !.op = "AsnCachePurge",
                                                     !.left = frames[t].left - 1]]
    /\ UNCHANGED <<cache, overrides, now, ret, mutex, fatal>>

PurgeAllLock(t) ==
    /\ frames[t].pc = "purgeAll.Lock"
    /\ Lock(t, "purgeAll.ip")

\* for ip, _ := range c.ip { delete(c.ip, ip) }
PurgeAllIp(t) ==
    /\ ~fatal
    /\ frames[t].pc = "purgeAll.ip"
    /\ cache' = [cache EXCEPT !.ip = EmptyMap]
    /\ frames' = [frames EXCEPT ![t].pc = "purgeAll.asn"]
    /\ UNCHANGED <<overrides, now, ret, mutex, fatal>>

\* for asn, _ := range c.asn { delete(c.asn, asn) }, the deferred Unlock and
\* the return.
PurgeAllAsn(t) ==
    /\ ~fatal
    /\ frames[t].pc = "purgeAll.asn"
    /\ cache' = [cache EXCEPT !.asn = EmptyMap]
    /\ mutex' = [mutex EXCEPT ![receiver(t)].w = FALSE]
    /\ frames' = Detached([frames EXCEPT ![t].pc = "idle"], EmptyMap)
    /\ UNCHANGED <<overrides, now, ret, fatal>>

\* Handler.LookupIp(asn) begins.
LookupIpCall(t, asn) ==
    /\ ~fatal
    /\ frames[t].pc = "idle"
    /\ frames[t].left > 0
    /\ frames' = [frames EXCEPT ![t] = [Frame0 EXCEPT !.pc = "lookupByASN.RLock",
                                                     !.op = "LookupIp", !.arg = asn,
                                                     !.left = frames[t].left - 1]]
    /\ UNCHANGED <<cache, overrides, now, ret, mutex, fatal>>

LookupByASNRLock(t) ==
    /\ frames[t].pc = "lookupByASN.RLock"
    /\ RLock(t, "lookupByASN.read")

\* answer, ok := c.asn[asn]; the bucket itself is returned, or a new map when
\* there is none; the deferred RUnlock.
LookupByASNRead(t) ==
    LET r == lookupByASNMap(cache, frames[t].arg)
    IN  /\ ~fatal
        /\ frames[t].pc = "lookupByASN.read"
        /\ mutex' = [mutex EXCEPT ![receiver(t)].r = @ - 1]
        /\ frames' = [frames EXCEPT
                         ![t].pc = "LookupIp.make",
                         ![t].ips = [attached |-> frames[t].arg \in DOMAIN cache.asn,
                                     elems |-> r.answer.elems],
                         ![t].snap = r.answer.elems]
        /\ UNCHANGED <<cache, overrides, now, ret, fatal>>

\* answer := make([]string, len(ips)): len(ips) empty strings.
LookupIpMake(t) ==
    /\ ~fatal
    /\ frames[t].pc = "LookupIp.make"
    /\ frames' = [frames EXCEPT ![t].pc = "LookupIp.range",
                                ![t].list = [i \in 1..Cardinality(IpsOf(t)) |-> << >>]]
    /\ UNCHANGED <<cache, overrides, now, ret, mutex, fatal>>

\* for ip, _ := range ips { answer[i] = ip; i++ } and the return: the IPs the
\* map now holds are written from the start of answer, in any order; an
\* index past the length of answer is a run-time panic, which ends the
\* process.
LookupIpRange(t) ==
    /\ ~fatal
    /\ frames[t].pc = "LookupIp.range"
    /\ IF Cardinality(IpsOf(t)) > Len(frames[t].list)
       THEN /\ fatal' = TRUE
            /\ frames' = [frames EXCEPT ![t].err = "index out of range"]
       ELSE /\ fatal' = fatal
            /\ \E o \in Orders(IpsOf(t)) :
                  frames' = [frames EXCEPT
                               ![t].pc = "idle",
                               ![t].list = [i \in DOMAIN frames[t].list |->
                                              IF i <= Len(o) THEN o[i] ELSE << >>]]
    /\ UNCHANGED <<cache, overrides, now, ret, mutex>>

\* Two goroutines are in the statements of cache methods at once and one of
\* them writes the maps, or one writes the maps while the other is about to
\* read, in LookupIp, a bucket the ASN map holds: a data race, which the Go
\* runtime may stop with "fatal error: concurrent map writes" (or "concurrent
\* map read and map write", "concurrent map iteration and map write"), and
\* may let go on.
FatalError ==
    /\ ~fatal
    /\ \E t, u \in Goroutines :
          /\ t # u /\ InWrite(t)
          /\ \/ InWrite(u) \/ InRead(u)
             \/ frames[u].pc \in {"LookupIp.make", "LookupIp.range"} /\ frames[u].ips.attached
    /\ fatal' = TRUE
    /\ UNCHANGED <<cache, overrides, now, ret, frames, mutex>>

\* A step of goroutine t in a method of cache that LookupAsn or AsnCachePurge
\* has called.
CacheStep(t) ==
    \/ LookupByIPRLock(t)
    \/ LookupByIPRead(t)
    \/ StoreLock(t)
    \/ StorePurgeIp(t)
    \/ StorePruneEmpty(t)
    \/ StoreForward(t)
    \/ StoreBucket(t)
    \/ PurgeAllLock(t)
    \/ PurgeAllIp(t)
    \/ PurgeAllAsn(t)

\* A step of goroutine t.
GoroutineStep(t) ==
    \/ \E ip \in {ip8, ip1} : LookupAsnCall(t, ip)
    \/ LookupAsnResolve(t)
    \/ AsnCachePurgeCall(t)
    \/ CacheStep(t)
    \/ \E asn \in CacheAsns : LookupIpCall(t, asn)
    \/ LookupByASNRLock(t)
    \/ LookupByASNRead(t)
    \/ LookupIpMake(t)
    \/ LookupIpRange(t)

ConcNext ==
    \/ \E t \in Goroutines : GoroutineStep(t)
    \/ FatalError

ConcSpec == Init /\ [][ConcNext]_vars

\* Goroutines that call LookupAsn and AsnCachePurge.
FairNext ==
    \/ \E t \in Goroutines :
          \/ LookupAsnCall(t, ip8)
          \/ LookupAsnResolve(t)
          \/ AsnCachePurgeCall(t)
          \/ CacheStep(t)
    \/ FatalError

\* The Go scheduler lets a goroutine that can take a step in a method of
\* cache take one, and every call of a source client and of the override
\* store returns: no goroutine stays in lookupAsnUncached for ever.
FairSpec ==
    /\ Init /\ [][FairNext]_vars
    /\ \A t \in Goroutines :
          /\ WF_vars(CacheStep(t))
          /\ []<>(frames[t].pc # "lookupAsnUncached" \/ fatal)

----------------------------------------------------------------------------
(* Properties. *)

\* The address is one LookupAsn resolves: a public IPv4 address.
ValidPublic4(ip) == LET p == ParseIP(ip) IN p.ok /\ p.is4 /\ ~IsLocalIP(p)

\* At time t the cache c holds an entry for ip that is not expired.
Fresh(c, ip, t) == ip \in DOMAIN c.ip /\ t <= c.ip[ip].due

\* The last call was LookupAsn.
IsLookup == ret.op = "LookupAsn"

\* The last call was a LookupAsn that went through the uncached resolution.
IsUncached == IsLookup /\ ret.calls # << >>

\* The invocations of method m among calls.
CallsOf(calls, m) == {i \in DOMAIN calls : calls[i].method = m}

\* Every IP and every ASN the cache mentions, with those of the model.
AllIps ==
    IpTexts \cup DOMAIN cache.ip \cup UNION {cache.asn[a] : a \in DOMAIN cache.asn}
AllAsns ==
    CacheAsns \cup DOMAIN cache.asn \cup {cache.ip[i].asn : i \in DOMAIN cache.ip}

\* C1: after any sequence of cache operations, an IP is in the reverse
\* bucket of ASN X if and only if the forward index maps it to an entry
\* whose asn is X.
C1_ForwardReverse ==
    \A i \in AllIps, X \in AllAsns :
        (X \in DOMAIN cache.asn /\ i \in cache.asn[X])
            <=> (i \in DOMAIN cache.ip /\ cache.ip[i].asn = X)

\* A store has left two IPs in one bucket and a third one in another.
C1_Witness ==
    /\ ret.op = "store"
    /\ Cardinality(DOMAIN cache.asn) = 2
    /\ \E X \in DOMAIN cache.asn : Cardinality(cache.asn[X]) = 2

\* C2: a LookupAsn of a public IPv4 address whose cache entry is not expired
\* returns the cached asn and description with no error, invokes no lookup
\* method and leaves the cache as it was.
C2_FreshHit ==
    [][\A ip \in IpTexts :
          (ret'.op = "LookupAsn" /\ ret'.arg = ip /\ ValidPublic4(ip) /\ Fresh(cache, ip, now))
              => /\ ret'.asn = cache.ip[ip].asn
                 /\ ret'.descr = cache.ip[ip].descr
                 /\ ret'.err = nil
                 /\ ret'.calls = << >>
                 /\ cache' = cache]_vars

\* A LookupAsn was answered from an entry on the very hour it is due.
C2_Witness ==
    /\ IsLookup /\ ret.err = nil /\ ret.calls = << >>
    /\ now = cache.ip[ret.arg].due

\* The answer the lookup method m gave among calls; it was invoked at most
\* once.
CallIn(calls, m) == calls[CHOOSE i \in CallsOf(calls, m) : TRUE]

\* The answer the lookup method m gave in the last call.
AnswerOf(m) == CallIn(ret.calls, m)

\* The last call invoked the lookup method m.
Invoked(m) == CallsOf(ret.calls, m) # {}

\* An override record exists for asn.
HasOverride(ov, asn) == ~ov.isNil /\ asn \in DOMAIN ov.docs

\* C3 as stated: whenever LookupAsn succeeds and an override record exists
\* for the ASN it resolved, the description it returns is the override's.
C3_OverrideAlways ==
    (IsLookup /\ ret.err = nil /\ HasOverride(overrides, ret.asn))
        => ret.descr = overrides.docs[ret.asn]

\* C3, amended: when LookupAsn succeeds after an uncached resolution and an
\* override record exists for the ASN it resolved, the description it returns
\* is the override's if the lookup in the override store succeeded, and is the
\* description computed from the sources if that lookup failed.
C3_OverrideUncached ==
    (IsUncached /\ ret.err = nil /\ HasOverride(overrides, ret.asn))
        => /\ Invoked("OverridesLookup")
           /\ AnswerOf("OverridesLookup").arg = ret.asn
           /\ ret.descr = IF AnswerOf("OverridesLookup").err = nil
                          THEN overrides.docs[ret.asn]
                          ELSE ret.computed

\* An uncached resolution whose sources gave a description has returned the
\* override's description instead.
C3_Witness ==
    /\ IsUncached /\ ret.err = nil /\ HasOverride(overrides, ret.asn)
    /\ AnswerOf("OverridesLookup").err = nil
    /\ ret.computed # << >>
    /\ ret.descr = overridenDescr /\ ret.descr # ret.computed

\* C4: a LookupAsn that follows a successful OverridesRemove(asn) and resolves
\* an IP of asn does not return the removed override's description.
C4_RemovedOverrideGone ==
    [][(/\ ret.op = "OverridesRemove" /\ ret.err = nil
        /\ ret'.op = "LookupAsn" /\ ret'.err = nil /\ ret'.asn = ret.arg)
           => ret'.descr \notin OverrideNames]_vars

\* C5: in an uncached resolution where libgeoip yields a non-empty ASN and a
\* non-empty description, the resolved ASN and the description before the
\* override are libgeoip's, and neither ipinfo.io nor cymru is invoked.
C5_LocalComplete ==
    (IsUncached /\ AnswerOf("LibGeoipLookup").asn # << >>
                /\ AnswerOf("LibGeoipLookup").descr # << >>)
        => /\ ret.err = nil
           /\ ret.asn = AnswerOf("LibGeoipLookup").asn
           /\ ret.computed = AnswerOf("LibGeoipLookup").descr
           /\ ~Invoked("IpInfoLookup")
           /\ ~Invoked("CymruDnsLookup")

\* libgeoip gave a complete pair and the resolution succeeded with it.
C5_Witness ==
    /\ IsUncached /\ ret.err = nil
    /\ ret.asn = asnGoogle /\ ret.computed = descrGoogle
    /\ AnswerOf("LibGeoipLookup").descr = descrGoogle

\* libgeoip did not yield a complete pair in the last uncached resolution.
LocalIncomplete ==
    /\ IsUncached
    /\ (AnswerOf("LibGeoipLookup").asn = << >> \/ AnswerOf("LibGeoipLookup").descr = << >>)

\* ipinfo.io succeeded with a non-empty ASN and a non-empty description.
RemoteComplete ==
    /\ Invoked("IpInfoLookup")
    /\ AnswerOf("IpInfoLookup").err = nil
    /\ AnswerOf("IpInfoLookup").asn # << >>
    /\ AnswerOf("IpInfoLookup").descr # << >>

\* C6: in an uncached resolution where libgeoip does not yield a complete
\* pair, ipinfo.io is queried once; if it succeeds with a non-empty ASN and a
\* non-empty description, the resolved ASN and the description before the
\* override are ipinfo.io's and cymru is not invoked.
C6_RemoteComplete ==
    LocalIncomplete
        => /\ Cardinality(CallsOf(ret.calls, "IpInfoLookup")) = 1
           /\ AnswerOf("IpInfoLookup").arg = ret.arg
           /\ RemoteComplete
                => /\ ret.err = nil
                   /\ ret.asn = AnswerOf("IpInfoLookup").asn
                   /\ ret.computed = AnswerOf("IpInfoLookup").descr
                   /\ ~Invoked("CymruDnsLookup")

\* libgeoip gave a bare ASN and ipinfo.io a complete pair of another ASN.
C6_Witness ==
    /\ LocalIncomplete /\ RemoteComplete
    /\ AnswerOf("LibGeoipLookup").asn = asnGoogle
    /\ ret.asn = asnLevel3 /\ ret.computed = descrLevel3

\* ipinfo.io succeeded with a non-empty ASN.
RemoteAsn ==
    /\ Invoked("IpInfoLookup")
    /\ AnswerOf("IpInfoLookup").err = nil
    /\ AnswerOf("IpInfoLookup").asn # << >>

\* C7: in an uncached resolution where neither libgeoip nor ipinfo.io yields
\* a complete pair but at least one of them yields an ASN, the resolved ASN is
\* libgeoip's when it is not empty and ipinfo.io's otherwise, and cymru is
\* queried exactly once, with that ASN, for the description before the
\* override (empty when cymru fails).
C7_BareAsn ==
    (/\ LocalIncomplete /\ ~RemoteComplete
     /\ (AnswerOf("LibGeoipLookup").asn # << >> \/ RemoteAsn))
        => /\ ret.err = nil
           /\ ret.asn = IF AnswerOf("LibGeoipLookup").asn # << >>
                        THEN AnswerOf("LibGeoipLookup").asn
                        ELSE AnswerOf("IpInfoLookup").asn
           /\ Cardinality(CallsOf(ret.calls, "CymruDnsLookup")) = 1
           /\ AnswerOf("CymruDnsLookup").arg = ret.asn
           /\ ret.computed = IF AnswerOf("CymruDnsLookup").err = nil
                             THEN AnswerOf("CymruDnsLookup").descr
                             ELSE << >>

\* libgeoip and ipinfo.io gave bare ASNs that differ, and cymru described
\* the one of libgeoip.
C7_Witness ==
    /\ LocalIncomplete /\ RemoteAsn /\ ~RemoteComplete
    /\ AnswerOf("LibGeoipLookup").asn = asnGoogle
    /\ AnswerOf("IpInfoLookup").asn = asnLevel3
    /\ ret.asn = asnGoogle /\ ret.computed = descrCymru

\* C8: a LookupAsn of a public IPv4 address that has no fresh cache entry
\* fails with the unknown ASN error if and only if libgeoip yields an empty
\* ASN and ipinfo.io fails or yields an empty ASN; it then consults neither
\* cymru nor the override store.
C8_UnknownAsn ==
    [][\A ip \in IpTexts :
          (/\ ret'.op = "LookupAsn" /\ ret'.arg = ip
           /\ ValidPublic4(ip) /\ ~Fresh(cache, ip, now))
              => LET calls == ret'.calls
                     unknown == ret'.err = UnknownAsnError
                 IN  /\ CallsOf(calls, "LibGeoipLookup") # {}
                     /\ unknown <=>
                           /\ CallIn(calls, "LibGeoipLookup").asn = << >>
                           /\ CallsOf(calls, "IpInfoLookup") # {}
                           /\ \/ CallIn(calls, "IpInfoLookup").err # nil
                              \/ CallIn(calls, "IpInfoLookup").asn = << >>
                     /\ unknown =>
                           /\ CallsOf(calls, "CymruDnsLookup") = {}
                           /\ CallsOf(calls, "OverridesLookup") = {}]_vars

\* A lookup failed with the unknown ASN error after libgeoip gave nothing and
\* ipinfo.io failed.
C8_Witness ==
    /\ IsLookup /\ ret.err = UnknownAsnError
    /\ AnswerOf("LibGeoipLookup").asn = << >>
    /\ AnswerOf("IpInfoLookup").err # nil

\* C9: when LookupAsn succeeds after an uncached resolution, the forward
\* entry of the address it was given holds the ASN and the description it
\* returned, is not expired, and the address is in the reverse bucket of that
\* ASN.
C9_StoredOnSuccess ==
    (IsUncached /\ ret.err = nil)
        => /\ ret.arg \in DOMAIN cache.ip
           /\ cache.ip[ret.arg].asn = ret.asn
           /\ cache.ip[ret.arg].descr = ret.descr
           /\ ~After(now, cache.ip[ret.arg].due)
           /\ lookupByIP(cache, ret.arg, now) = <<ret.asn, ret.descr, FALSE, TRUE>>
           /\ ret.arg \in lookupByASN(cache, ret.asn)

\* An uncached resolution has replaced an expired entry by the overridden
\* description it returned.
C9_Witness ==
    /\ IsUncached /\ ret.err = nil /\ now > cacheTTL
    /\ ret.descr = overridenDescr /\ ret.computed # overridenDescr
    /\ cache.ip[ret.arg].descr = overridenDescr

\* C10: a LookupAsn that returns an error leaves the forward index and the
\* reverse index of the cache as they were.
C10_ErrorKeepsCache ==
    [][(ret'.op = "LookupAsn" /\ ret'.err # nil) => cache' = cache]_vars

\* A lookup has failed with the unknown ASN error while the expired entry of
\* its address is still in both indexes.
C10_Witness ==
    /\ IsLookup /\ ret.err = UnknownAsnError
    /\ ret.arg \in DOMAIN cache.ip
    /\ After(now, cache.ip[ret.arg].due)
    /\ ret.arg \in lookupByASN(cache, cache.ip[ret.arg].asn)

\* The errors LookupAsn may return.
LookupAsnErrors ==
    {MalformedIPError, PrivateIPError, IPv6NotSupportedError, UnknownAsnError}

\* The calls of the last LookupAsn that returned an error.
FailedCalls == {i \in DOMAIN ret.calls : ret.calls[i].err # nil}

\* C11: an error LookupAsn returns is the malformed address, the private
\* address, the IPv6 or the unknown ASN error, and it is never the error
\* that IpInfoLookup, CymruDnsLookup or OverridesLookup returned to it.
C11_ClosedErrors ==
    IsLookup
        => /\ ret.err # nil => ret.err \in LookupAsnErrors
           /\ \A i \in FailedCalls : ret.err # ret.calls[i].err

\* A lookup has failed with the unknown ASN error after ipinfo.io failed.
C11_Witness ==
    /\ IsLookup /\ ret.err = UnknownAsnError
    /\ Invoked("IpInfoLookup") /\ AnswerOf("IpInfoLookup").err # nil
    /\ AnswerOf("IpInfoLookup").err \notin LookupAsnErrors

\* The address the last LookupAsn was given, parsed.
ParsedArg == ParseIP(ret.arg)

\* The last LookupAsn returned err without calling cache.lookupByIP, any
\* lookup method or cache.store.
Rejected(err) ==
    /\ ret.err = err /\ ret.asn = << >> /\ ret.descr = << >>
    /\ ~ret.probed /\ ret.calls = << >>

\* C12: for a text that is not an IPv4 or IPv6 literal, LookupAsn returns
\* MalformedIPError without probing the cache and without invoking a source
\* or the override store.
C12_Malformed ==
    (IsLookup /\ ~ParsedArg.ok) => Rejected(MalformedIPError)

\* A host name and an incomplete dotted quad are malformed; the host name has
\* been rejected by a Handler whose cache is not empty.
C12_Witness ==
    /\ ~ParseIP(ipShort).ok
    /\ IsLookup /\ ret.arg = ipHost /\ ret.err = MalformedIPError
    /\ cache # newCache

\* C13 as stated: LookupAsn of a local address of either family returns
\* PrivateIPError.
C13_LocalAnyFamily ==
    (IsLookup /\ ParsedArg.ok /\ IsLocalIP(ParsedArg)) => ret.err = PrivateIPError

\* C13, amended: LookupAsn of a local IPv4 address returns PrivateIPError;
\* LookupAsn of a local IPv6 address returns IPv6NotSupportedError; neither
\* probes the cache or invokes a source.
C13_LocalIPv4 ==
    (IsLookup /\ ParsedArg.ok /\ IsLocalIP(ParsedArg))
        => Rejected(IF ParsedArg.is4 THEN PrivateIPError ELSE IPv6NotSupportedError)

\* 10.0.0.1, 192.168.0.1 and ::1 are local, 2404::64 is not; 192.168.0.1 has
\* been rejected as private.
C13_Witness ==
    /\ IsLocalIP(ParseIP(ipPrivate)) /\ IsLocalIP(ParseIP(ipV6))
    /\ ~IsLocalIP(ParseIP(ipV6Public))
    /\ IsLookup /\ ret.arg = ip192 /\ ret.err = PrivateIPError

\* C14: LookupAsn of an address that is not IPv4 returns
\* IPv6NotSupportedError, never the unknown ASN error, without probing the
\* cache and without invoking a source.
C14_IPv6Rejected ==
    (IsLookup /\ ParsedArg.ok /\ ~ParsedArg.is4) => Rejected(IPv6NotSupportedError)

\* A global IPv6 address has been rejected by a Handler whose cache is not
\* empty.
C14_Witness ==
    /\ IsLookup /\ ret.arg = ipV6Public /\ ret.err = IPv6NotSupportedError
    /\ ~IsLocalIP(ParsedArg)
    /\ cache # newCache

\* The elements of a list.
Range(l) == {l[i] : i \in DOMAIN l}

\* C15: when ip is cached under ASN A and store(ip, B, d) is executed with B
\* other than A, then ip is no longer in the bucket of A, which has one
\* member less, ip is in the bucket of B, and if ip was the only member of
\* A's bucket, no list asnList() returns contains A.
C15_Restore ==
    [][\A ip \in CacheIps, B \in CacheAsns :
          (/\ ret'.op = "store" /\ ret'.arg = ip /\ ret'.asn = B
           /\ ip \in DOMAIN cache.ip /\ cache.ip[ip].asn # B)
              => LET A == cache.ip[ip].asn
                 IN  /\ ip \notin lookupByASN(cache', A)
                     /\ Cardinality(lookupByASN(cache', A)) + 1
                           = Cardinality(lookupByASN(cache, A))
                     /\ ip \in lookupByASN(cache', B)
                     /\ lookupByASN(cache, A) = {ip}
                           => \A l \in asnList(cache') : A \notin Range(l)]_vars

\* A store has moved the only IP of an ASN to another ASN, whose bucket held
\* another IP already.
C15_Witness ==
    /\ ret.op = "store"
    /\ ret.arg \in DOMAIN ret.prev.ip
    /\ ret.prev.ip[ret.arg].asn # ret.asn
    /\ lookupByASN(ret.prev, ret.prev.ip[ret.arg].asn) = {ret.arg}
    /\ Cardinality(lookupByASN(cache, ret.asn)) = 2
    /\ \A l \in asnList(cache) : Range(l) = {ret.asn}

\* C16: when store(ip1, asn, _) is executed on a cache that has no entry
\* under asn and store(ip2, asn, _) follows it, ip2 other than ip1, then
\* lookupByASN(asn) returns exactly the set of ip1 and ip2.
C16_TwoStores ==
    [][(/\ ret.op = "store" /\ ret.asn \notin DOMAIN ret.prev.asn
        /\ \A i \in DOMAIN ret.prev.ip : ret.prev.ip[i].asn # ret.asn
        /\ ret'.op = "store" /\ ret'.asn = ret.asn /\ ret'.arg # ret.arg)
           => lookupByASN(cache', ret.asn) = {ret.arg, ret'.arg}]_vars

\* The second of two stores of different IPs under one ASN has been made:
\* the bucket held the first IP alone and now holds both, while a third IP
\* is cached under another ASN.
C16_Witness ==
    /\ ret.op = "store"
    /\ Cardinality(lookupByASN(ret.prev, ret.asn)) = 1
    /\ ret.arg \notin lookupByASN(ret.prev, ret.asn)
    /\ lookupByASN(cache, ret.asn) = lookupByASN(ret.prev, ret.asn) \cup {ret.arg}
    /\ Cardinality(DOMAIN cache.ip) = 3

\* C17: purgeASN(asn) removes the entries cached under asn and nothing else:
\* afterwards lookupByIP does not find any IP that was cached under asn, no
\* list asnList() returns contains asn, and the forward entry and the bucket
\* of every IP cached under another ASN are as before.
C17_PurgeASN ==
    [][\A asn \in CacheAsns :
          (ret'.op = "purgeASN" /\ ret'.arg = asn)
              => /\ \A i \in DOMAIN cache.ip :
                       IF cache.ip[i].asn = asn
                       THEN ~lookupByIP(cache', i, now)[4]
                       ELSE /\ lookupByIP(cache', i, now) = lookupByIP(cache, i, now)
                            /\ cache'.ip[i] = cache.ip[i]
                 /\ \A l \in asnList(cache') : asn \notin Range(l)
                 /\ \A X \in (DOMAIN cache.asn) \ {asn} :
                       /\ X \in DOMAIN cache'.asn
                       /\ lookupByASN(cache', X) = lookupByASN(cache, X)
                 /\ DOMAIN cache'.ip \subseteq DOMAIN cache.ip
                 /\ DOMAIN cache'.asn \subseteq DOMAIN cache.asn]_vars

\* A purgeASN has removed the two IPs of one ASN and kept the IP of another.
C17_Witness ==
    /\ ret.op = "purgeASN"
    /\ Cardinality(lookupByASN(ret.prev, ret.arg)) = 2
    /\ Cardinality(DOMAIN ret.prev.ip) = 3
    /\ Cardinality(DOMAIN cache.ip) = 1
    /\ \A i \in DOMAIN cache.ip : cache.ip[i] = ret.prev.ip[i]

\* C18: after AsnCachePurge (cache.purgeAll), asnList() returns the empty
\* list and lookupByIP does not find any IP that was cached before; a
\* LookupAsn of such an IP that follows the purge tries the cache and goes
\* through the uncached lookup.
C18_PurgeAll ==
    [][/\ ret'.op = "AsnCachePurge"
            => /\ asnList(cache') = {<< >>}
               /\ \A i \in DOMAIN cache.ip : ~lookupByIP(cache', i, now)[4]
       /\ (/\ ret.op = "AsnCachePurge" /\ ret'.op = "LookupAsn"
           /\ ret'.arg \in DOMAIN ret.prev.ip)
            => /\ ret'.probed
               /\ CallsOf(ret'.calls, "LibGeoipLookup") # {}]_vars

\* AsnCachePurge has emptied a cache that held fresh entries of two IPs.
C18_Witness ==
    /\ ret.op = "AsnCachePurge"
    /\ Cardinality(DOMAIN ret.prev.ip) = 2
    /\ \E i \in DOMAIN ret.prev.ip : Fresh(ret.prev, i, now)
    /\ cache = newCache

\* C19: lookupByASN and LookupIp never return nil; for an ASN that has no
\* bucket they return an empty collection and leave the cache without a
\* bucket for it, so that asnList() returns what it returned before.
C19_NeverNil ==
    /\ [](\A asn \in CacheAsns :
             LET r == lookupByASNMap(cache, asn)
             IN  /\ ~r.answer.isNil
                 /\ asn \notin DOMAIN cache.asn
                       => /\ r.answer.elems = {}
                          /\ asn \notin DOMAIN r.cache.asn
                          /\ asnList(r.cache) = asnList(cache))
    /\ [][ret'.op = "LookupIp"
             => /\ ~ret'.isNil
                /\ ret'.arg \notin DOMAIN cache.asn
                      => /\ ret'.list = << >>
                         /\ ret'.arg \notin DOMAIN cache'.asn
                         /\ asnList(cache') = asnList(cache)]_vars

\* LookupIp has returned an empty list for an ASN that is not cached while
\* another ASN is.
C19_Witness ==
    /\ ret.op = "LookupIp" /\ ~ret.isNil /\ ret.list = << >>
    /\ ret.arg \notin DOMAIN cache.asn
    /\ lookupByASNMap(cache, ret.arg).answer = makeMap
    /\ DOMAIN cache.asn # {}

\* The ASNs of the forward entries of the cache.
ForwardAsns == {cache.ip[i].asn : i \in DOMAIN cache.ip}

\* C20: after any sequence of cache operations, a list asnList() returns
\* holds no ASN twice, holds an ASN if and only if some forward entry has
\* that asn, and holds no ASN whose bucket is empty.
C20_AsnList ==
    \A l \in asnList(cache) :
        /\ \A i, j \in DOMAIN l : l[i] = l[j] => i = j
        /\ Range(l) = ForwardAsns
        /\ \A X \in Range(l) : lookupByASN(cache, X) # {}

\* asnList has returned two ASNs for a cache of three IPs.
C20_Witness ==
    /\ ret.op = "asnList" /\ Len(ret.list) = 2
    /\ ret.list \in asnList(cache)
    /\ Cardinality(DOMAIN cache.ip) = 3

\* C21: store(ip, asn, descr) at time t leaves for ip the entry (asn, descr,
\* t + cacheTTL) whatever entry ip had; the entry stays as it is until a store
\* or a purge; and lookupByIP(ip) at time t' finds it, returns its asn and
\* descr, and reports it expired if and only if t' is greater than its due
\* date.
C21_StoreThenLookup ==
    [][/\ ret'.op = "store"
            => cache'.ip[ret'.arg] = cacheEntry(ret'.asn, ret'.descr, now + cacheTTL)
       /\ ret'.op \notin {"store", "purgeASN", "purgeAll"} => cache' = cache
       /\ (ret'.op = "lookupByIP" /\ ret'.arg \in DOMAIN cache.ip)
            => /\ ret'.found
               /\ ret'.asn = cache.ip[ret'.arg].asn
               /\ ret'.descr = cache.ip[ret'.arg].descr
               /\ ret'.expired <=> now > cache.ip[ret'.arg].due]_vars

\* lookupByIP has found an entry one hour after its due date and reported it
\* expired.
C21_Witness ==
    /\ ret.op = "lookupByIP" /\ ret.found /\ ret.expired
    /\ ret.asn = cache.ip[ret.arg].asn
    /\ now = cache.ip[ret.arg].due + 1


\* The last call was one of the override methods.
IsOverrideCall ==
    ret.op \in {"OverridesLookup", "OverridesAdd", "OverridesRemove", "OverridesList"}

\* The sources of the last uncached resolution yielded an ASN.
FoundAsn ==
    /\ IsUncached
    /\ (AnswerOf("LibGeoipLookup").asn # << >> \/ RemoteAsn)

\* C24: on a Handler made without an overrides collection, OverridesLookup,
\* OverridesAdd, OverridesRemove and OverridesList return
\* OverridesNilCollectionError, and an uncached LookupAsn whose sources yield
\* an ASN succeeds with the description computed from the sources.
C24_NoCollection ==
    overrides.isNil
        => /\ IsOverrideCall => ret.err = OverridesNilCollectionError
           /\ FoundAsn => /\ ret.err = nil
                          /\ ret.descr = ret.computed
                          /\ AnswerOf("OverridesLookup").err = OverridesNilCollectionError

\* Without a collection a resolution has returned the description of cymru,
\* the override lookup having answered OverridesNilCollectionError.
C24_Witness ==
    /\ overrides.isNil /\ FoundAsn /\ ret.err = nil
    /\ AnswerOf("OverridesLookup").err = OverridesNilCollectionError
    /\ ret.descr = descrCymru


\* C25: on a Handler with an overrides collection, setting an override for an
\* identifier that is not AS followed by digits returns
\* OverridesMalformedAsnError and leaves the collection as it was.
C25_MalformedRejected ==
    [][(/\ ret'.op \in {"OverridesSet", "OverridesAdd"}
        /\ ~overrides.isNil /\ ~reASN(ret'.arg))
           => /\ ret'.err = OverridesMalformedAsnError
              /\ overrides' = overrides]_vars


\* C26 as stated: on a Handler with an overrides collection OverridesRemove
\* returns no error whether or not a record exists, removing a record that
\* does not exist leaves the collection as it was, and an OverridesLookup of
\* the ASN right after a successful OverridesRemove returns
\* OverridesAsnNotFoundError.
C26_RemoveAlwaysSucceeds ==
    [][/\ (ret'.op = "OverridesRemove" /\ ~overrides.isNil)
            => /\ ret'.err = nil
               /\ ~ret'.existed => overrides' = overrides
       /\ (/\ ret.op = "OverridesRemove" /\ ret.err = nil
           /\ ret'.op = "OverridesLookup" /\ ret'.arg = ret.arg)
            => ret'.err = OverridesAsnNotFoundError]_vars

\* C26, amended: on a Handler with an overrides collection OverridesRemove
\* returns no error whether or not a record exists, or the error of a failed
\* query to the collection; removing a record that does not exist leaves the
\* collection as it was; after a successful OverridesRemove the collection
\* holds no record of the ASN and only that record is gone, and an
\* OverridesLookup of the ASN right after it returns OverridesAsnNotFoundError
\* or the error of its own failed query.
C26_RemoveIdempotent ==
    [][/\ (ret'.op = "OverridesRemove" /\ ~overrides.isNil)
            => /\ ret'.err \in {nil, "cannot remove override"}
               /\ ~ret'.existed => overrides' = overrides
               /\ ret'.err = nil
                    => overrides'.docs =
                         MapRestrict(overrides.docs, (DOMAIN overrides.docs) \ {ret'.arg})
       /\ (/\ ret.op = "OverridesRemove" /\ ret.err = nil
           /\ ret'.op = "OverridesLookup" /\ ret'.arg = ret.arg)
            => ret'.err \in {OverridesAsnNotFoundError, "cannot lookup override"}]_vars

\* An OverridesRemove of an ASN that had no record has returned no error
\* while the collection holds the record of another ASN.
C26_Witness ==
    /\ ret.op = "OverridesRemove" /\ ret.err = nil /\ ~ret.existed
    /\ ret.arg = asnLevel3 /\ DOMAIN overrides.docs = {asnGoogle}


\* The records of the list l whose Asn is asn.
RecordsOf(l, asn) == {i \in DOMAIN l : l[i][1] = asn}

\* C27: the collection holds at most one record for an ASN: a successful
\* OverridesAdd leaves the ASN with the description it was given and the other
\* records as they were, no other call but OverridesRemove changes the
\* collection, OverridesLookup returns the description the collection holds
\* for the ASN, that of the last successful OverridesAdd, and OverridesList
\* returns exactly one record for each ASN of the collection, with that
\* description.
C27_OneRecordPerAsn ==
    [][/\ (ret'.op = "OverridesAdd" /\ ret'.err = nil)
            => overrides'.docs = MapPut(overrides.docs, ret'.arg, ret'.descr)
       /\ (ret'.op = "OverridesAdd" /\ ret'.err # nil) => overrides' = overrides
       /\ ret'.op \notin {"OverridesAdd", "OverridesRemove"} => overrides' = overrides
       /\ (ret'.op = "OverridesLookup" /\ ret'.err = nil)
            => /\ ret'.arg \in DOMAIN overrides.docs
               /\ ret'.descr = overrides.docs[ret'.arg]
       /\ (ret'.op = "OverridesList" /\ ret'.err = nil)
            => /\ \A asn \in DOMAIN overrides.docs :
                     /\ Cardinality(RecordsOf(ret'.list, asn)) = 1
                     /\ \A i \in RecordsOf(ret'.list, asn) :
                           ret'.list[i][2] = overrides.docs[asn]
               /\ Len(ret'.list) = Cardinality(DOMAIN overrides.docs)]_vars

\* An OverridesAdd has given another description to an ASN that had one, and
\* the collection holds that description for it beside the record of another
\* ASN.
C27_Witness ==
    /\ ret.op = "OverridesAdd" /\ ret.err = nil /\ ret.replaced
    /\ ret.arg = asnGoogle /\ ret.descr = descrLeet
    /\ overrides.docs[asnGoogle] = descrLeet
    /\ DOMAIN overrides.docs = {asnGoogle, asnLevel3}


\* C28: an uncached resolution whose sources yield an ASN succeeds whatever
\* OverridesLookup answers, and when OverridesLookup fails, be it for a
\* record not found, a nil collection or a failed query, it returns the
\* description computed from the sources.
C28_FailOpen ==
    FoundAsn
        => /\ ret.err = nil
           /\ Cardinality(CallsOf(ret.calls, "OverridesLookup")) = 1
           /\ AnswerOf("OverridesLookup").err \in
                {nil, OverridesAsnNotFoundError, OverridesNilCollectionError,
                 "cannot lookup override"}
           /\ AnswerOf("OverridesLookup").err # nil => ret.descr = ret.computed

\* The query to the collection failed during a resolution of an ASN that has
\* an override, and the resolution returned the description of the sources.
C28_Witness ==
    /\ FoundAsn /\ ret.err = nil /\ HasOverride(overrides, ret.asn)
    /\ AnswerOf("OverridesLookup").err = "cannot lookup override"
    /\ ret.computed # << >> /\ ret.descr = ret.computed


\* C29: every key of the reverse index, the asn of every forward entry and
\* the key of every override record is AS followed by digits.
C29_AsnKeys ==
    \A a \in DOMAIN cache.asn \cup ForwardAsns \cup DOMAIN overrides.docs : reASN(a)


\* The last uncached resolution asked cymru for a description and cymru
\* failed.
CymruFailed ==
    /\ IsUncached /\ Invoked("CymruDnsLookup")
    /\ AnswerOf("CymruDnsLookup").err # nil

\* The ASN the sources of the last uncached resolution yielded.
SourceAsn ==
    IF AnswerOf("LibGeoipLookup").asn # << >>
    THEN AnswerOf("LibGeoipLookup").asn
    ELSE AnswerOf("IpInfoLookup").asn

\* The cache holds for the address of the last call the ASN and the
\* description the call returned.
Cached ==
    /\ ret.arg \in DOMAIN cache.ip
    /\ cache.ip[ret.arg].asn = ret.asn
    /\ cache.ip[ret.arg].descr = ret.descr
    /\ ret.arg \in lookupByASN(cache, ret.asn)

\* C30 as stated: when cymru fails for the ASN the sources yielded, LookupAsn
\* returns no error, that ASN, the description of the override record if
\* there is one and an empty description otherwise, and the cache holds the
\* pair.
C30_DnsFailure ==
    CymruFailed
        => /\ ret.err = nil
           /\ ret.asn = SourceAsn
           /\ ret.descr = IF HasOverride(overrides, ret.asn)
                          THEN overrides.docs[ret.asn]
                          ELSE << >>
           /\ Cached

\* C30, amended: when cymru fails for the ASN the sources yielded, LookupAsn
\* returns no error, that ASN, the description of the override record if the
\* lookup in the override store found one and an empty description otherwise
\* (no record, no collection, or a failed query), and the cache holds the
\* pair.
C30_DnsFailureOpen ==
    CymruFailed
        => /\ ret.err = nil
           /\ ret.asn = SourceAsn
           /\ AnswerOf("CymruDnsLookup").arg = ret.asn
           /\ ret.computed = << >>
           /\ ret.descr = IF AnswerOf("OverridesLookup").err = nil
                          THEN overrides.docs[ret.asn]
                          ELSE << >>
           /\ Cached

\* cymru failed for the bare ASN of ipinfo.io, which has no override, and the
\* cache holds that ASN with an empty description.
C30_Witness ==
    /\ CymruFailed /\ ret.err = nil /\ ~overrides.isNil
    /\ AnswerOf("LibGeoipLookup").asn = << >>
    /\ ret.asn = asnLevel3 /\ ret.descr = << >>
    /\ ~HasOverride(overrides, ret.asn)
    /\ cache.ip[ret.arg] = cacheEntry(asnLevel3, << >>, now + cacheTTL)

\* C22: while a goroutine is between the Lock and the Unlock of store or
\* purgeAll, no other goroutine is between the Lock and Unlock or the RLock
\* and RUnlock of a cache method, and while a goroutine is between an RLock
\* and its RUnlock an IP is in the reverse bucket of an ASN if and only if
\* its forward entry has that ASN.
C22_MutualExclusion ==
    /\ \A t, u \in Goroutines :
          (t # u /\ InWrite(t)) => ~InWrite(u) /\ ~InRead(u)
    /\ (\E t \in Goroutines : InRead(t)) => C1_ForwardReverse

\* Both goroutines have returned from a LookupAsn of the same IP that missed
\* the cache, resolved the IP and stored the result.
BothMissed ==
    /\ \A t \in Goroutines :
          /\ frames[t].pc = "idle" /\ frames[t].op = "LookupAsn"
          /\ frames[t].missed /\ frames[t].err = nil
    /\ \A t, u \in Goroutines : frames[t].arg = frames[u].arg

\* C23: once two LookupAsn calls of the same IP that both missed the cache
\* have returned, the forward entry of the IP holds the ASN and description
\* of the store that took its Lock last, the IP is in the reverse bucket of
\* that ASN and in no other, and an IP is in the reverse bucket of an ASN if
\* and only if its forward entry has that ASN.
C23_LastWriteWins ==
    BothMissed
        => LET later == CHOOSE t \in Goroutines : frames[t].last
               ip == frames[later].arg
           IN  /\ ip \in DOMAIN cache.ip
               /\ cache.ip[ip].asn = frames[later].asn
               /\ cache.ip[ip].descr = frames[later].descr
               /\ {a \in DOMAIN cache.asn : ip \in cache.asn[a]} = {frames[later].asn}
               /\ C1_ForwardReverse

\* C31: a LookupAsn of an address whose cache entry is expired performs an
\* uncached resolution and returns what that resolution returns: on success
\* the pair it resolved, which replaces the entry with a due date of now plus
\* cacheTTL; on failure an error, no ASN and no description, the entry being
\* left as it was.
C31_ExpiredRefreshed ==
    [][\A ip \in IpTexts :
          (/\ ret'.op = "LookupAsn" /\ ret'.arg = ip
           /\ ip \in DOMAIN cache.ip /\ After(now, cache.ip[ip].due))
              => /\ \E env \in EnvsFor(ip, ParseIP(ip)) :
                       LET res == lookupAsnUncached(overrides, ip, ParseIP(ip), env)
                       IN  /\ res.calls # << >> /\ ret'.calls = res.calls
                           /\ ret'.asn = res.asn /\ ret'.descr = res.descr
                           /\ ret'.err = res.err
                 /\ ret'.err = nil
                      => cache'.ip[ip] = cacheEntry(ret'.asn, ret'.descr, now + cacheTTL)
                 /\ ret'.err # nil
                      => /\ ret'.asn = << >> /\ ret'.descr = << >>
                         /\ cache' = cache]_vars

\* A LookupAsn that found an expired entry has replaced it by the pair it has
\* just resolved from ipinfo.io, due cacheTTL hours from now.
C31_Witness ==
    /\ IsUncached /\ ret.err = nil /\ ret.found /\ ret.expired
    /\ ret.arg = ip8 /\ ret.asn = asnLevel3
    /\ AnswerOf("LibGeoipLookup").asn = << >>
    /\ cache.ip[ip8] = cacheEntry(asnLevel3, ret.descr, now + cacheTTL)


\* C32: under concurrent store, purge and LookupIp calls on one Handler, every
\* list LookupIp returns is a snapshot of the bucket lookupByASN found: it holds
\* no empty string and no IP twice, filling it never indexes past its length,
\* and the set lookupByASN returned is not altered while LookupIp reads it.
C32_SnapshotList ==
    \A t \in Goroutines :
        frames[t].op = "LookupIp"
            => /\ frames[t].err # "index out of range"
               /\ frames[t].pc \in {"LookupIp.make", "LookupIp.range", "idle"}
                    => IpsOf(t) = frames[t].snap
               /\ frames[t].pc = "idle"
                    => /\ \A i \in DOMAIN frames[t].list : frames[t].list[i] # << >>
                       /\ \A i, j \in DOMAIN frames[t].list :
                              frames[t].list[i] = frames[t].list[j] => i = j
                       /\ Range(frames[t].list) = frames[t].snap


\* C33: every LookupAsn call ends, by returning or with the process when the
\* runtime stops it, and in one call the local database, the remote HTTP
\* client, the DNS client and the override store are each invoked at most
\* once, and the cache entry is written at most once.
C33_BoundedLookup ==
    /\ [](\A t \in Goroutines :
             frames[t].op = "LookupAsn"
                 => /\ \A m \in {"LibGeoipLookup", "IpInfoLookup", "CymruDnsLookup",
                                  "OverridesLookup"} :
                           Cardinality(CallsOf(frames[t].calls, m)) <= 1
                    /\ frames[t].stores <= 1)
    /\ \A t \in Goroutines :
          (frames[t].op = "LookupAsn" /\ frames[t].pc # "idle")
              ~> (frames[t].pc = "idle" \/ fatal)

\* A LookupAsn has returned after invoking the local database, the remote
\* client, the DNS client and the override store, once each, and writing the
\* cache entry.
C33_Witness ==
    \E t \in Goroutines :
        /\ frames[t].op = "LookupAsn" /\ frames[t].pc = "idle" /\ ~fatal
        /\ frames[t].stores = 1
        /\ \A m \in {"LibGeoipLookup", "IpInfoLookup", "CymruDnsLookup",
                      "OverridesLookup"} :
               Cardinality(CallsOf(frames[t].calls, m)) = 1

============================================================================
